---- MODULE Spec2Model ----
(***************************************************************************)
(* The LogBatcher durable object of divortio-logdo (src/logDO.mjs, the     *)
(* revision with retry counters and a dead-letter queue), its schema       *)
(* manager (src/schema/schemaManager.mjs), the retention pruner            *)
(* (src/filter/pruneRetention.mjs), the KV helpers and the dispatcher and  *)
(* cron wiring of the worker (src/logger.mjs, src/worker.mjs).             *)
(*                                                                         *)
(* One batcher instance is modelled.  Every action is one synchronous      *)
(* segment of a handler, from its entry or from the resumption of an       *)
(* `await` to the next `await`: the instance is single-threaded and        *)
(* cooperative, so handlers interleave only at awaits.                     *)
(*                                                                         *)
(* Environment assumptions: durable storage get and the KV put of a         *)
(* dead-letter entry succeed; durable storage put and store statements     *)
(* (catalog queries, DDL, INSERT batches, DELETE, ANALYZE) may fail at any *)
(* time.                                                                   *)
(***************************************************************************)
EXTENDS Integers, Sequences, FiniteSets, Bags, TLC

\* ---------------------------------------------------------------- bounds
MaxRecords == 3
MaxBatchChoice == 2
MaxDay == 1
MaxChecks == 2
MaxRows == 2
MaxStr == 2
MaxNum == 2
MaxGroups == 2
MaxRules == 2
MaxUserRoutes == 2
MaxDispatches == 2
MaxShared == 2

\* ------------------------------------------------------------- constants
MAX_RETRIES == 3
MS_PER_DAY == 86400000
BATCH_INTERVAL_MS == 10000
MAX_BATCH_SIZE == 200

\* Date.now() at the start of a behaviour: later than any interval after time 0
Epoch == 2 * MS_PER_DAY
\* rowsDeleted when pruneTable returned no value
Undefined == -1

Tables == {"t1", "t2"}
\* the routings the dispatcher of the main specification produces
Matches == {{"t1"}}
Versions == {1, 2}

NoHash == "undefined"
\* a table the catalog does not list; a listed one is Table(cols)
NoTable == [exists |-> FALSE, cols |-> {}]
Table(cols) == [exists |-> TRUE, cols |-> cols]
NoPlan == 0
\* the plan of a deployment whose routes module no longer lists table t2
PartialPlan == 3
NoAlarm == -1
None == "none"

\* ---------------------------------------------------------------- schema
\* Two deployments of the route schemas: version 2 adds the indexed column
\* rayId and no longer lists the column requestUrl.
Schema(v) ==
    IF v = 1 THEN <<"logId", "receivedAt", "requestUrl">>
             ELSE <<"logId", "rayId", "receivedAt">>

Indexed(col) == col \in {"rayId", "receivedAt"}

\* hashIsh(routeSchema, 16): a deterministic fingerprint of the ordered
\* column declarations.
SchemaHash(v) == IF v = 1 THEN "hash_1" ELSE "hash_2"

Route(t, v) == [tableName |-> t, ver |-> v]

Range(s) == {s[i] : i \in 1..Len(s)}

IndexName(col) == "idx_" \o col

\* The idx_<col> names a schema asks for.
SchemaIndexes(v) == {IndexName(c) : c \in {x \in Range(Schema(v)) : Indexed(x)}}

VARIABLES
    maxBatchSize,      \* this._maxBatchSize
    batches,           \* this._batches : table -> list of records
    logPlan,           \* this._logPlan : NoPlan or the version of the plan it was given
    failureCounts,     \* this._failureCounts (absent read as 0)
    initPromises,      \* this._initPromises : absent | pending | fulfilled | rejected
    initRun,           \* the async body of initialize, per table
    flights,           \* invocations of _writeBatchToD1 suspended at an await
    alarmTime,         \* the pending alarm of ctx.storage, or NoAlarm
    schemaHashStored,  \* ctx.storage schema_hash_<table>
    lastPruned,        \* ctx.storage lastPruned_<table> (0 = absent)
    catalog,           \* store: table -> NoTable or Table(its set of columns)
    indexes,           \* store: index name -> the table it is on, or None
    storeBatches,      \* store: per table, the INSERT batches it accepted
    deadLetter,        \* LOGDO_DEAD_LETTER: the entries written
    migrationMetrics,  \* METRICS_SCHEMA_MIGRATIONS data points
    ddl,               \* DDL statements issued by the latest step
    deployed,          \* the version of the plan the worker compiled
    nextRec,           \* records are numbered in the order addLog accepts them
    accepted,          \* per table, the records addLog accepted in this lifetime
    now,               \* Date.now()
    checks,            \* invocations of runRetentionCheck suspended at an await
    rows,              \* store: per table, receivedAt of the rows pruning sees
    pruningMetrics,    \* METRICS_DATA_PRUNING data points
    instanceKind,      \* which name the instance is addressed by
    opCall,            \* an operator call: operator, subject, literal
    opResult,          \* what the operator call returned
    filterConfig,      \* a filter configuration given to createFilter
    filterRequest,     \* the request its predicate was last applied to
    filterResult,      \* what the predicate returned for it
    hoseFilters,       \* env.LOG_HOSE_FILTERS
    userLogRoutes,     \* logRoutes of the routes module
    logPlanPromise,    \* this._logPlanPromise of the worker
    logCall,           \* the latest invocation of log(request, data)
    configured,        \* env.BATCH_INTERVAL_MS and env.MAX_BATCH_SIZE
    batchIntervalMs,   \* this._batchIntervalMs
    dispatches,        \* the calls of sendLog: request, record and instance name
    retentionPolicy,   \* retentionDays and pruningIntervalDays of the pruned table's route
    cronDispatched,    \* what the latest run of scheduled() did for that route
    attempts,          \* store: per table and record, the INSERT batches with it that were rejected
    otherInstance,     \* a second instance: its plan, init promises, runs and stored fingerprints
    chains             \* per route, where the promise chain of the cron handler stands

batcherVars == <<maxBatchSize, batches, logPlan, failureCounts, flights,
                 alarmTime, storeBatches, deadLetter, nextRec, accepted>>
schemaVars == <<initPromises, initRun, schemaHashStored, catalog, indexes,
                migrationMetrics, ddl>>
pruneVars == <<lastPruned, checks, rows, pruningMetrics>>
\* the variables of the durable object instance and of its store
doVars == <<batcherVars, schemaVars, pruneVars, deployed, now, instanceKind>>
\* the variables of the worker, of its configuration and of the constructor
callerVars == <<opCall, opResult, filterConfig, filterRequest, filterResult,
                hoseFilters, userLogRoutes, logPlanPromise, logCall,
                configured, batchIntervalMs, dispatches, retentionPolicy,
                cronDispatched, chains>>
\* and the store's record of the submissions it rejected
workerVars == <<callerVars, attempts, otherInstance>>
vars == <<doVars, workerVars>>

\* ------------------------------------------------------- schema manager
IdleRun == [pc |-> "idle", ver |-> 0, stored |-> NoHash, todo |-> {}]

\* A variant that treats every fingerprint as changed.
HashAlwaysDiffers(stored, v) == TRUE

\* initialize / initDB: `storedHash !== schemaHash`
HashDiffers(stored, v) == stored # SchemaHash(v)

\* A variant with the two migration types exchanged.
MigrationTypeSwapped(stored) == IF stored # NoHash THEN "create_table" ELSE "alter_table"

\* initialize: `tableExists ? 'alter_table' : 'create_table'`, tableExists = !!storedHash
MigrationType(stored) == IF stored # NoHash THEN "alter_table" ELSE "create_table"

\* A variant that finds no column to add.
NoColumnsToAdd(existing, v) == {}

\* updateTableAndIndexes: the schema columns PRAGMA table_info does not list
ColumnsToAdd(existing, v) == Range(Schema(v)) \ existing

\* createMissingIndexes: the idx_<col> of the indexed columns not in existingIndexNames
IndexesToCreate(v, existingIndexNames) == SchemaIndexes(v) \ existingIndexNames

ColumnsOf(t) == catalog[t].cols

\* PRAGMA index_list(<table>): the indexes that are on this table
IndexList(t) == {n \in DOMAIN indexes : indexes[n] = t}

Settle(t, outcome) ==
    /\ initPromises' = [initPromises EXCEPT ![t] = outcome]
    /\ initRun' = [initRun EXCEPT ![t] = IdleRun]

Advance(t, pc, todo) ==
    /\ initRun' = [initRun EXCEPT ![t].pc = pc, ![t].todo = todo]
    /\ UNCHANGED initPromises

\* initialize(route) for every table of S, with the routes of plan version v:
\* a memoized promise is returned as it is, otherwise the async body starts
\* and runs up to `await this._ctx.storage.get(storageKey)`.
PromisesAfterInitialize(S) ==
    [t \in Tables |-> IF t \in S /\ initPromises[t] = "absent"
                      THEN "pending" ELSE initPromises[t]]

\* A variant without the memo: every call starts the async body.
RunsOfEveryCall(S, v) ==
    [t \in Tables |-> IF t \in S
                      THEN [pc |-> "get", ver |-> v, stored |-> NoHash, todo |-> {}]
                      ELSE initRun[t]]

\* initialize: `if (this._initPromises.has(tableName)) return ...`, else the
\* async body is started
RunsAfterInitialize(S, v) ==
    [t \in Tables |-> IF t \in S /\ initPromises[t] = "absent"
                      THEN [pc |-> "get", ver |-> v, stored |-> NoHash, todo |-> {}]
                      ELSE initRun[t]]

\* storage.get resolved: compare the fingerprints; equal ends the run,
\* different enters initDB -> applySchema, up to the sqlite_master query.
InitGet(t) ==
    /\ initRun[t].pc = "get"
    /\ IF HashDiffers(schemaHashStored[t], initRun[t].ver)
       THEN /\ initRun' = [initRun EXCEPT ![t].pc = "check",
                                          ![t].stored = schemaHashStored[t]]
            /\ UNCHANGED initPromises
       ELSE Settle(t, "fulfilled")
    /\ ddl' = {}
    /\ UNCHANGED <<schemaHashStored, catalog, indexes, migrationMetrics>>

\* applySchema: the sqlite_master query answered (or failed).
InitTableCheck(t) ==
    /\ initRun[t].pc = "check"
    /\ \E ok \in BOOLEAN :
         IF ~ok THEN Settle(t, "rejected")
         ELSE IF ~catalog[t].exists THEN Advance(t, "create", {})
         ELSE Advance(t, "tableInfo", {})
    /\ ddl' = {}
    /\ UNCHANGED <<schemaHashStored, catalog, indexes, migrationMetrics>>

\* createTable: CREATE TABLE executed (it fails when the table exists),
\* then createMissingIndexes(db, tableName, schema, new Set()).
InitCreate(t) ==
    /\ initRun[t].pc = "create"
    /\ ddl' = {<<"CREATE TABLE", t, "*">>}
    /\ \E ok \in BOOLEAN :
         IF ok /\ ~catalog[t].exists
         THEN /\ catalog' = [catalog EXCEPT ![t] = Table(Range(Schema(initRun[t].ver)))]
              /\ LET toCreate == IndexesToCreate(initRun[t].ver, {})
                 IN  IF toCreate = {} THEN Advance(t, "put", {})
                     ELSE Advance(t, "indexes", toCreate)
         ELSE /\ Settle(t, "rejected")
              /\ UNCHANGED catalog
    /\ UNCHANGED <<schemaHashStored, indexes, migrationMetrics>>

\* updateTableAndIndexes: PRAGMA table_info answered (or failed).
InitTableInfo(t) ==
    /\ initRun[t].pc = "tableInfo"
    /\ \E ok \in BOOLEAN :
         IF ~ok THEN Settle(t, "rejected")
         ELSE LET toAdd == ColumnsToAdd(ColumnsOf(t), initRun[t].ver)
              IN  IF toAdd # {} THEN Advance(t, "alter", toAdd)
                  ELSE Advance(t, "indexList", {})
    /\ ddl' = {}
    /\ UNCHANGED <<schemaHashStored, catalog, indexes, migrationMetrics>>

\* updateTableAndIndexes: the batch of ALTER TABLE ADD COLUMN executed as
\* one unit; it fails as a whole when the table is missing or a column exists.
InitAlter(t) ==
    /\ initRun[t].pc = "alter"
    /\ ddl' = {<<"ALTER TABLE ADD COLUMN", t, c>> : c \in initRun[t].todo}
    /\ \E ok \in BOOLEAN :
         IF ok /\ catalog[t].exists /\ initRun[t].todo \cap ColumnsOf(t) = {}
         THEN /\ catalog' = [catalog EXCEPT ![t] = Table(ColumnsOf(t) \cup initRun[t].todo)]
              /\ Advance(t, "indexList", {})
         ELSE /\ Settle(t, "rejected")
              /\ UNCHANGED catalog
    /\ UNCHANGED <<schemaHashStored, indexes, migrationMetrics>>

\* updateTableAndIndexes: PRAGMA index_list answered (or failed), then
\* createMissingIndexes with the names it listed.
InitIndexList(t) ==
    /\ initRun[t].pc = "indexList"
    /\ \E ok \in BOOLEAN :
         IF ~ok THEN Settle(t, "rejected")
         ELSE LET toCreate == IndexesToCreate(initRun[t].ver, IndexList(t))
              IN  IF toCreate = {} THEN Advance(t, "put", {})
                  ELSE Advance(t, "indexes", toCreate)
    /\ ddl' = {}
    /\ UNCHANGED <<schemaHashStored, catalog, indexes, migrationMetrics>>

\* createMissingIndexes: the batch of CREATE INDEX IF NOT EXISTS executed;
\* an index name that exists in the database is left as it is.
InitIndexes(t) ==
    /\ initRun[t].pc = "indexes"
    /\ ddl' = {<<"CREATE INDEX IF NOT EXISTS", t, n>> : n \in initRun[t].todo}
    /\ \E ok \in BOOLEAN :
         IF ok
         THEN /\ indexes' = [n \in DOMAIN indexes |->
                               IF n \in initRun[t].todo /\ indexes[n] = None
                               THEN t ELSE indexes[n]]
              /\ Advance(t, "put", {})
         ELSE /\ Settle(t, "rejected")
              /\ UNCHANGED indexes
    /\ UNCHANGED <<schemaHashStored, catalog, migrationMetrics>>

\* initialize: storage.put(storageKey, schemaHash) answered (or failed),
\* then the migration metric.
InitPut(t) ==
    /\ initRun[t].pc = "put"
    /\ \E ok \in BOOLEAN :
         IF ok
         THEN /\ schemaHashStored' = [schemaHashStored EXCEPT
                                        ![t] = SchemaHash(initRun[t].ver)]
              /\ migrationMetrics' = Append(migrationMetrics,
                    [tableName |-> t,
                     migrationType |-> MigrationType(initRun[t].stored),
                     schemaHash |-> SchemaHash(initRun[t].ver)])
              /\ Settle(t, "fulfilled")
         ELSE /\ Settle(t, "rejected")
              /\ UNCHANGED <<schemaHashStored, migrationMetrics>>
    /\ ddl' = {}
    /\ UNCHANGED <<catalog, indexes>>

InitStep(t) ==
    \/ InitGet(t)
    \/ InitTableCheck(t)
    \/ InitCreate(t)
    \/ InitTableInfo(t)
    \/ InitAlter(t)
    \/ InitIndexList(t)
    \/ InitIndexes(t)
    \/ InitPut(t)

\* What an instance that has not run holds: no plan, nothing from the
\* schema manager.
FreshInstance == [logPlan |-> NoPlan,
                  initPromises |-> [t \in Tables |-> "absent"],
                  initRun |-> [t \in Tables |-> IdleRun],
                  schemaHashStored |-> [t \in Tables |-> NoHash]]

\* env.LOG_BATCHER.get(idFromName(doName)) with another name: the runtime
\* runs the second instance.  Each instance has its own _initPromises and
\* its own _logPlan and ctx.storage; the store and the metrics are common
\* to both.
RunOtherInstance ==
    /\ logPlan' = otherInstance.logPlan
    /\ initPromises' = otherInstance.initPromises
    /\ initRun' = otherInstance.initRun
    /\ schemaHashStored' = otherInstance.schemaHashStored
    /\ otherInstance' = [logPlan |-> logPlan,
                         initPromises |-> initPromises,
                         initRun |-> initRun,
                         schemaHashStored |-> schemaHashStored]
    /\ ddl' = {}
    /\ UNCHANGED <<maxBatchSize, batches, failureCounts, flights, alarmTime,
                   storeBatches, deadLetter, nextRec, accepted, catalog, indexes,
                   migrationMetrics, pruneVars, deployed, now, instanceKind,
                   callerVars, attempts>>

\* ---------------------------------------------------------------- batcher
\* A variant that flushes only past the threshold.
BatchOverFull(batch) == Len(batch) > maxBatchSize

\* addLog: `batch.length >= this._maxBatchSize`
BatchFull(batch) == Len(batch) >= maxBatchSize

\* A variant that allows one more retry.
ExceededMaxRetries(failures) == failures > MAX_RETRIES

\* _writeBatchToD1, catch: `failures >= MAX_RETRIES`
ReachedMaxRetries(failures) == failures >= MAX_RETRIES

\* _writeBatchToD1, catch: `[...batchToWrite, ...existingBatch]`
Prepend(batchToWrite, existingBatch) == batchToWrite \o existingBatch

\* this._logPlan.find(r => r.tableName === tableName): the tables the plan has a route for
PlanTables(plan) ==
    IF plan = NoPlan THEN {}
    ELSE IF plan = PartialPlan THEN Tables \ {"t2"}
    ELSE Tables

Flight(t, batchToWrite, v, origin) ==
    [table |-> t, batch |-> batchToWrite, ver |-> v, pc |-> "init", origin |-> origin]

\* this._batches.entries() and the plan list the tables in this order
TableOrder == <<"t1", "t2">>

\* The suspended invocations, a list in the order they claimed their batch.
Flights == Range(flights)

WithoutFlight(f) == SelectSeq(flights, LAMBDA g : g # f)

WithFlightAt(f, pc) == [i \in 1..Len(flights) |->
                          IF flights[i] = f THEN [f EXCEPT !.pc = pc] ELSE flights[i]]

\* A variant that leaves the claimed records in the buffer of the table.
SameBuffer(batchToWrite) == batchToWrite

\* _writeBatchToD1: `this._batches.set(tableName, [])`
FreshBuffer(batchToWrite) == <<>>

\* _writeBatchToD1(route) from its entry to `await this.initialize(route)`,
\* for every table of S: the buffer `buffers[t]` is claimed and replaced by
\* an empty one, and initialize(route) is called.  S holds only tables whose
\* buffer is not empty (the others return at once).
StartFlushes(S, buffers, v, origin) ==
    /\ batches' = [t \in Tables |-> IF t \in S THEN FreshBuffer(buffers[t])
                                               ELSE buffers[t]]
    /\ flights' = flights \o [i \in 1..Len(SelectSeq(TableOrder, LAMBDA t : t \in S)) |->
                               Flight(SelectSeq(TableOrder, LAMBDA t : t \in S)[i],
                                      buffers[SelectSeq(TableOrder, LAMBDA t : t \in S)[i]],
                                      v, origin)]
    /\ initPromises' = PromisesAfterInitialize(S)
    /\ initRun' = RunsAfterInitialize(S, v)

\* A variant that keeps the alarm that is pending.
AlarmTimeUnlessPending(nowRead) ==
    IF alarmTime # NoAlarm THEN alarmTime ELSE nowRead + batchIntervalMs

\* addLog: `setAlarm(Date.now() + this._batchIntervalMs)`
AlarmTimeAfter(nowRead) == nowRead + batchIntervalMs

\* addLog(logData, matchedRoutes): the caller passes the routes of the plan
\* it compiled.  Push, start a flush of every buffer that is full, set the alarm.
AddLog(matched) ==
    /\ nextRec <= MaxRecords
    /\ LET pushed == [t \in Tables |-> IF t \in matched
                                       THEN Append(batches[t], nextRec) ELSE batches[t]]
           full == {t \in matched : BatchFull(pushed[t])}
       IN  StartFlushes(full, pushed, deployed, "addLog")
    /\ accepted' = [t \in Tables |-> IF t \in matched
                                     THEN accepted[t] \cup {nextRec} ELSE accepted[t]]
    /\ nextRec' = nextRec + 1
    /\ alarmTime' = AlarmTimeAfter(now)
    /\ ddl' = {}
    /\ UNCHANGED <<maxBatchSize, logPlan, failureCounts, storeBatches, deadLetter,
                   schemaHashStored, catalog, indexes, migrationMetrics,
                   pruneVars, deployed, now, instanceKind, workerVars>>

\* setLogPlan(plan)
SetLogPlanTo(plan) ==
    /\ logPlan' = plan
    /\ ddl' = {}
    /\ UNCHANGED <<maxBatchSize, batches, failureCounts, flights, alarmTime,
                   storeBatches, deadLetter, nextRec, accepted,
                   initPromises, initRun, schemaHashStored, catalog, indexes,
                   migrationMetrics, pruneVars, deployed, now, instanceKind, workerVars>>

\* setLogPlan(plan) with the plan the worker compiled
SetLogPlan == SetLogPlanTo(deployed)

\* A variant that takes every non-empty buffer.
NonEmpty == {t \in Tables : batches[t] # <<>>}

\* The non-empty buffers whose route the plan of the instance resolves.
Flushable == {t \in Tables : batches[t] # <<>> /\ t \in PlanTables(logPlan)}

\* alarm(): the runtime delivers the pending alarm once it is due and clears
\* it; without a plan the handler returns, otherwise it starts the flushes.
Alarm ==
    /\ alarmTime # NoAlarm
    /\ now' = IF alarmTime > now THEN alarmTime ELSE now
    /\ alarmTime' = NoAlarm
    /\ IF logPlan = NoPlan
       THEN UNCHANGED <<batches, flights, initPromises, initRun>>
       ELSE StartFlushes(Flushable, batches, logPlan, "alarm")
    /\ ddl' = {}
    /\ UNCHANGED <<maxBatchSize, logPlan, failureCounts, storeBatches, deadLetter,
                   nextRec, accepted, schemaHashStored, catalog, indexes,
                   migrationMetrics, pruneVars, deployed, instanceKind, workerVars>>

\* destructor(): start a flush of every non-empty buffer the plan resolves.
Destructor ==
    /\ StartFlushes(Flushable, batches, logPlan, "destructor")
    /\ ddl' = {}
    /\ UNCHANGED <<maxBatchSize, logPlan, failureCounts, alarmTime, storeBatches,
                   deadLetter, nextRec, accepted, schemaHashStored,
                   catalog, indexes, migrationMetrics, pruneVars, deployed, now,
                   instanceKind, workerVars>>

\* _writeBatchToD1 resumes from `await this.initialize(route)`: a fulfilled
\* promise lets it build the INSERT statements and submit them as one batch;
\* a rejected one makes the await throw outside the try block, which ends
\* the invocation with the claimed batch in no buffer.
FlushAfterInit(f) ==
    /\ f \in Flights
    /\ f.pc = "init"
    /\ initPromises[f.table] \in {"fulfilled", "rejected"}
    /\ flights' = IF initPromises[f.table] = "fulfilled"
                  THEN WithFlightAt(f, "batch")
                  ELSE WithoutFlight(f)
    /\ ddl' = {}
    /\ UNCHANGED <<maxBatchSize, batches, logPlan, failureCounts, alarmTime,
                   storeBatches, deadLetter, nextRec, accepted,
                   initPromises, initRun, schemaHashStored, catalog, indexes,
                   migrationMetrics, pruneVars, deployed, now, instanceKind, workerVars>>

\* The store accepts an INSERT batch only into a table that has every column
\* the statements name.
StoreCanInsert(t, v) == catalog[t].exists /\ Range(Schema(v)) \subseteq ColumnsOf(t)

\* saveDeadLetterBatch: the entry written under deadletter_<tableName>_<ISO timestamp>
DeadLetterEntry(t, batchToWrite) == [tableName |-> t, batch |-> batchToWrite, timestamp |-> now]

\* A variant with one failure counter for all the tables.
FailuresSetForAll(t, failures) == [u \in Tables |-> failures]

\* _writeBatchToD1: `this._failureCounts.set(tableName, failures)`, and
\* `this._failureCounts.delete(tableName)` for failures = 0
FailuresSet(t, failures) == [failureCounts EXCEPT ![t] = failures]

\* No INSERT batch was rejected yet.
NoAttempts == [t \in Tables |-> [r \in 1..MaxRecords |-> 0]]

\* The store rejects the INSERT batch of f: every record of it was part of
\* one more failed submission to its table.
AttemptsAfterFailure(f) ==
    [attempts EXCEPT ![f.table] = [r \in 1..MaxRecords |->
                                     IF r \in Range(f.batch) THEN @[r] + 1 ELSE @[r]]]

\* _writeBatchToD1 resumes from `await this._env.LOGGING_DB.batch(stmts)`.
FlushBatchDone(f) ==
    /\ f \in Flights
    /\ f.pc = "batch"
    /\ flights' = WithoutFlight(f)
    /\ \E ok \in BOOLEAN :
         IF ok /\ StoreCanInsert(f.table, f.ver)
         THEN /\ storeBatches' = [storeBatches EXCEPT ![f.table] = Append(@, f.batch)]
              /\ failureCounts' = FailuresSet(f.table, 0)
              /\ UNCHANGED <<batches, deadLetter, attempts>>
         ELSE LET failures == failureCounts[f.table] + 1
              IN  /\ attempts' = AttemptsAfterFailure(f)
                  /\ IF ReachedMaxRetries(failures)
                     THEN /\ deadLetter' = Append(deadLetter, DeadLetterEntry(f.table, f.batch))
                          /\ failureCounts' = FailuresSet(f.table, 0)
                          /\ UNCHANGED <<batches, storeBatches>>
                     ELSE /\ failureCounts' = FailuresSet(f.table, failures)
                          /\ batches' = [batches EXCEPT ![f.table] = Prepend(f.batch, @)]
                          /\ UNCHANGED <<deadLetter, storeBatches>>
    /\ ddl' = {}
    /\ UNCHANGED <<maxBatchSize, logPlan, alarmTime, nextRec, accepted,
                   initPromises, initRun, schemaHashStored, catalog, indexes,
                   migrationMetrics, pruneVars, deployed, now, instanceKind, callerVars,
                   otherInstance>>

\* The runtime discards the instance: everything in memory is gone, durable
\* storage (fingerprints, lastPruned, the alarm) and the stores remain.
Restart ==
    /\ batches' = [t \in Tables |-> <<>>]
    /\ logPlan' = NoPlan
    /\ failureCounts' = [t \in Tables |-> 0]
    /\ flights' = <<>>
    /\ checks' = EmptyBag
    /\ initPromises' = [t \in Tables |-> "absent"]
    /\ initRun' = [t \in Tables |-> IdleRun]
    /\ accepted' = [t \in Tables |-> {}]
    /\ ddl' = {}
    /\ UNCHANGED <<maxBatchSize, alarmTime, storeBatches, deadLetter, nextRec,
                   schemaHashStored, catalog, indexes, migrationMetrics,
                   lastPruned, rows, pruningMetrics, deployed, now,
                   instanceKind, workerVars>>

\* A new version of the worker, with changed route schemas, is deployed:
\* the instance is discarded and starts again with the new code.
Redeploy ==
    /\ deployed + 1 \in Versions
    /\ deployed' = deployed + 1
    /\ batches' = [t \in Tables |-> <<>>]
    /\ logPlan' = NoPlan
    /\ failureCounts' = [t \in Tables |-> 0]
    /\ flights' = <<>>
    /\ checks' = EmptyBag
    /\ initPromises' = [t \in Tables |-> "absent"]
    /\ initRun' = [t \in Tables |-> IdleRun]
    /\ accepted' = [t \in Tables |-> {}]
    /\ ddl' = {}
    /\ UNCHANGED <<maxBatchSize, alarmTime, storeBatches, deadLetter, nextRec,
                   schemaHashStored, catalog, indexes, migrationMetrics,
                   lastPruned, rows, pruningMetrics, now, instanceKind, workerVars>>

\* A step of the schema manager inside the instance.
SchemaStep ==
    /\ \E t \in Tables : InitStep(t)
    /\ UNCHANGED <<batcherVars, pruneVars, deployed, now, instanceKind, workerVars>>

\* ------------------------------------------------------ retention pruner
\* What a route may carry as pruningIntervalDays (0: the route omits it) and
\* as retentionDays.
IntervalChoices == {0, 1}
RetentionChoices == {1}

\* runRetentionCheck: `(pruningIntervalDays || 1) * 24 * 60 * 60 * 1000`
IntervalMs(pruningIntervalDays) ==
    (IF pruningIntervalDays = 0 THEN 1 ELSE pruningIntervalDays) * 24 * 60 * 60 * 1000

\* A variant that prunes as soon as the interval is reached.
IntervalReached(nowRead, lastPrunedTimestamp, pruningIntervalDays) ==
    nowRead - lastPrunedTimestamp >= IntervalMs(pruningIntervalDays)

\* runRetentionCheck: `now - lastPrunedTimestamp > intervalMs`
IntervalElapsed(nowRead, lastPrunedTimestamp, pruningIntervalDays) ==
    nowRead - lastPrunedTimestamp > IntervalMs(pruningIntervalDays)

\* pruneTable: `cutoffDate.setDate(cutoffDate.getDate() - retentionDays)`, in UTC
Cutoff(retentionDays) == now - retentionDays * MS_PER_DAY

\* Date.prototype.toISOString(): the fixed-width text YYYY-MM-DDTHH:mm:ss.sssZ,
\* here the pair of its date part (as a day number) and its time part (as
\* the millisecond of the day).
IsoString(ms) == <<ms \div MS_PER_DAY, ms % MS_PER_DAY>>

\* The store compares two such texts character by character, so the date
\* part decides first.
IsoBefore(a, b) == a[1] < b[1] \/ (a[1] = b[1] /\ a[2] < b[2])

\* A variant that also deletes the rows received exactly at the cutoff.
RowsUpToCutoff(t, cutoff) ==
    {r \in rows[t] : ~IsoBefore(IsoString(cutoff), IsoString(r))}

\* pruneTable: `DELETE FROM <t> WHERE receivedAt < ?1`, ?1 the ISO text of
\* the cutoff and receivedAt the ISO text the record was given.
RowsToDelete(t, cutoff) ==
    {r \in rows[t] : IsoBefore(IsoString(r), IsoString(cutoff))}

Check(t, days, retention) ==
    [table |-> t, days |-> days, retention |-> retention, ver |-> deployed,
     pc |-> "get", now |-> 0, last |-> 0, cutoff |-> 0, deleted |-> 0]

\* The suspended invocations of runRetentionCheck, a bag: what one of them
\* does next does not depend on the order they started in.
Checks == BagToSet(checks)

WithoutCheck(c) == checks (-) SetToBag({c})

WithCheck(c, d) == WithoutCheck(c) (+) SetToBag({d})

\* sendDataPruningMetric(env, tableName, outcome, rowsDeleted, durationMs)
PruningMetric(t, outcome, rowsDeleted) ==
    [tableName |-> t, outcome |-> outcome, rowsDeleted |-> rowsDeleted]

\* runRetentionCheck(route) from its entry to `await this._ctx.storage.get(lastPrunedKey)`
RunRetentionCheck(t, days, retention) ==
    /\ BagCardinality(checks) < MaxChecks
    /\ checks' = checks (+) SetToBag({Check(t, days, retention)})
    /\ ddl' = {}
    /\ UNCHANGED <<batcherVars, initPromises, initRun, schemaHashStored, catalog,
                   indexes, migrationMetrics, lastPruned, rows,
                   pruningMetrics, deployed, now, instanceKind, workerVars>>

\* storage.get resolved: read the clock, compare with the interval; when it
\* has elapsed call initialize(route), otherwise return.
CheckGet(c) ==
    /\ c \in Checks
    /\ c.pc = "get"
    /\ LET d == [c EXCEPT !.now = now, !.last = lastPruned[c.table]]
       IN  IF IntervalElapsed(d.now, d.last, d.days)
           THEN /\ checks' = WithCheck(c, [d EXCEPT !.pc = "init"])
                /\ initPromises' = PromisesAfterInitialize({c.table})
                /\ initRun' = RunsAfterInitialize({c.table}, c.ver)
           ELSE /\ checks' = WithoutCheck(c)
                /\ UNCHANGED <<initPromises, initRun>>
    /\ ddl' = {}
    /\ UNCHANGED <<batcherVars, schemaHashStored, catalog, indexes, migrationMetrics,
                   lastPruned, rows, pruningMetrics, deployed, now, instanceKind, workerVars>>

\* runRetentionCheck resumes from `await this.initialize(route)`: fulfilled,
\* it calls pruneTable, which computes the cutoff and runs the DELETE;
\* rejected, the await throws outside the try block.
CheckAfterInit(c) ==
    /\ c \in Checks
    /\ c.pc = "init"
    /\ initPromises[c.table] \in {"fulfilled", "rejected"}
    /\ IF initPromises[c.table] = "fulfilled"
       THEN checks' = WithCheck(c, [c EXCEPT !.pc = "delete",
                                             !.cutoff = Cutoff(c.retention)])
       ELSE checks' = WithoutCheck(c)
    /\ ddl' = {}
    /\ UNCHANGED <<batcherVars, initPromises, initRun, schemaHashStored, catalog,
                   indexes, migrationMetrics, lastPruned, rows, pruningMetrics,
                   deployed, now, instanceKind, workerVars>>

\* A variant whose catch block emits no metric.
PruneFailedSilently(c) ==
    /\ checks' = WithoutCheck(c)
    /\ UNCHANGED pruningMetrics

\* The invocation ends in the catch and finally blocks of runRetentionCheck.
PruneFailed(c) ==
    /\ checks' = WithoutCheck(c)
    /\ pruningMetrics' = pruningMetrics \cup {PruningMetric(c.table, "failure", 0)}

\* pruneTable: the DELETE answered; with rows deleted ANALYZE follows,
\* otherwise pruneTable returns and storage.put(lastPrunedKey, now) follows.
CheckDelete(c) ==
    /\ c \in Checks
    /\ c.pc = "delete"
    /\ \E ok \in BOOLEAN :
         IF ok
         THEN LET gone == RowsToDelete(c.table, c.cutoff)
              IN  /\ rows' = [rows EXCEPT ![c.table] = @ \ gone]
                  /\ checks' = WithCheck(c,
                        [c EXCEPT !.pc = IF Cardinality(gone) > 0 THEN "analyze" ELSE "put",
                                  !.deleted = Cardinality(gone)])
                  /\ UNCHANGED pruningMetrics
         ELSE /\ PruneFailed(c)
              /\ UNCHANGED rows
    /\ ddl' = {}
    /\ UNCHANGED <<batcherVars, initPromises, initRun, schemaHashStored, catalog,
                   indexes, migrationMetrics, lastPruned, deployed, now, instanceKind, workerVars>>

\* pruneTable: ANALYZE answered.
CheckAnalyze(c) ==
    /\ c \in Checks
    /\ c.pc = "analyze"
    /\ \E ok \in BOOLEAN :
         IF ok
         THEN /\ checks' = WithCheck(c, [c EXCEPT !.pc = "put"])
              /\ UNCHANGED pruningMetrics
         ELSE PruneFailed(c)
    /\ ddl' = {}
    /\ UNCHANGED <<batcherVars, initPromises, initRun, schemaHashStored, catalog,
                   indexes, migrationMetrics, lastPruned, rows, deployed, now,
                   instanceKind, workerVars>>

\* runRetentionCheck: storage.put(lastPrunedKey, now) answered, then the
\* finally block; rowsDeleted is what pruneTable returned, and it returns
\* no value.
CheckPut(c) ==
    /\ c \in Checks
    /\ c.pc = "put"
    /\ \E ok \in BOOLEAN :
         IF ok
         THEN /\ lastPruned' = [lastPruned EXCEPT ![c.table] = c.now]
              /\ checks' = WithoutCheck(c)
              /\ pruningMetrics' = pruningMetrics \cup
                    {PruningMetric(c.table, "success", Undefined)}
         ELSE /\ PruneFailed(c)
              /\ UNCHANGED lastPruned
    /\ ddl' = {}
    /\ UNCHANGED <<batcherVars, initPromises, initRun, schemaHashStored, catalog,
                   indexes, migrationMetrics, rows, deployed, now, instanceKind, workerVars>>

CheckStep(c) ==
    \/ CheckGet(c)
    \/ CheckAfterInit(c)
    \/ CheckDelete(c)
    \/ CheckAnalyze(c)
    \/ CheckPut(c)

\* The clock values the retention checks are tried at: day boundaries after
\* the epoch and one millisecond past them.
TimePoints == {Epoch + d * MS_PER_DAY + e : d \in 0..MaxDay, e \in {0, 1}}

Tick ==
    /\ \E later \in TimePoints : later > now /\ now' = later
    /\ ddl' = {}
    /\ UNCHANGED <<batcherVars, initPromises, initRun, schemaHashStored, catalog,
                   indexes, migrationMetrics, pruneVars, deployed, instanceKind, workerVars>>

\* A batcher instance inserts a row received now into the table.
InsertRow(t) ==
    /\ Cardinality(rows[t]) < MaxRows
    /\ now \notin rows[t]
    /\ rows' = [rows EXCEPT ![t] = @ \cup {now}]
    /\ ddl' = {}
    /\ UNCHANGED <<batcherVars, initPromises, initRun, schemaHashStored, catalog,
                   indexes, migrationMetrics, lastPruned, checks,
                   pruningMetrics, deployed, now, instanceKind, workerVars>>

\* ------------------------------------------------------------- JS values
\* A JavaScript value: its kind t, a number n counted in tenths (so that 1.5
\* is 15 and 200 is 2000) and a string s as the sequence of its characters.
JsNull == [t |-> "null", n |-> 0, s |-> <<>>]
JsUndefined == [t |-> "undefined", n |-> 0, s |-> <<>>]
JsNaN == [t |-> "NaN", n |-> 0, s |-> <<>>]
\* a regular expression literal of a routes module
JsRegExp == [t |-> "regexp", n |-> 0, s |-> <<>>]
Str(s) == [t |-> "string", n |-> 0, s |-> s]
\* the number n / 10
Num(n) == [t |-> "number", n |-> n, s |-> <<>>]
Whole(k) == Num(10 * k)
Bool(b) == [t |-> "boolean", n |-> IF b THEN 10 ELSE 0, s |-> <<>>]

\* typeof v
TypeOf(v) ==
    CASE v.t \in {"null", "regexp"} -> "object"
      [] v.t = "NaN" -> "number"
      [] OTHER -> v.t

\* !v
Falsy(v) ==
    \/ v.t \in {"null", "undefined", "NaN"}
    \/ v.t = "number" /\ v.n = 0
    \/ v.t = "string" /\ v.s = <<>>
    \/ v.t = "boolean" /\ v.n = 0

DigitChars == <<"0", "1", "2", "3", "4", "5", "6", "7", "8", "9">>

IsDigit(c) == \E i \in 1..10 : DigitChars[i] = c

DigitValue(c) == (CHOOSE i \in 1..10 : DigitChars[i] = c) - 1

RECURSIVE Digits(_)
\* the decimal digits of a natural number
Digits(k) == IF k < 10 THEN <<DigitChars[k + 1]>>
             ELSE Digits(k \div 10) \o <<DigitChars[(k % 10) + 1]>>

Abs(n) == IF n < 0 THEN 0 - n ELSE n

\* Number::toString of a number held in tenths
NumberToString(n) ==
    (IF n < 0 THEN <<"-">> ELSE <<>>)
    \o Digits(Abs(n) \div 10)
    \o (IF Abs(n) % 10 = 0 THEN <<>> ELSE <<".", DigitChars[(Abs(n) % 10) + 1]>>)

\* ToString(v), as String.prototype.includes and parseInt apply it
JsToString(v) ==
    CASE v.t = "string" -> v.s
      [] v.t = "number" -> NumberToString(v.n)
      [] v.t = "NaN" -> <<"N", "a", "N">>
      [] v.t = "boolean" -> IF v.n = 0 THEN <<"f", "a", "l", "s", "e">>
                                       ELSE <<"t", "r", "u", "e">>
      [] v.t = "null" -> <<"n", "u", "l", "l">>
      [] v.t = "undefined" -> <<"u", "n", "d", "e", "f", "i", "n", "e", "d">>
      [] OTHER -> <<"/", "a", "/">>

\* the length of the longest prefix of s made of digits
RECURSIVE DigitPrefix(_)
DigitPrefix(s) == IF s = <<>> \/ ~IsDigit(Head(s)) THEN 0
                  ELSE 1 + DigitPrefix(Tail(s))

RECURSIVE DigitsValue(_)
\* the natural number a sequence of digits denotes
DigitsValue(s) == IF s = <<>> THEN 0
                  ELSE 10 * DigitsValue(SubSeq(s, 1, Len(s) - 1))
                       + DigitValue(s[Len(s)])

RECURSIVE TrimStart(_)
TrimStart(s) == IF s # <<>> /\ Head(s) = " " THEN TrimStart(Tail(s)) ELSE s

RECURSIVE TrimEnd(_)
TrimEnd(s) == IF s # <<>> /\ s[Len(s)] = " " THEN TrimEnd(SubSeq(s, 1, Len(s) - 1))
              ELSE s

\* parseInt(v, 10): the string of v without leading white space, an optional
\* sign, then the longest run of digits; NaN when there is no digit.
ParseInt(v) ==
    LET str == TrimStart(JsToString(v))
        neg == str # <<>> /\ Head(str) = "-"
        body == IF str # <<>> /\ Head(str) \in {"-", "+"} THEN Tail(str) ELSE str
        k == DigitPrefix(body)
    IN  IF k = 0 THEN JsNaN
        ELSE Whole((IF neg THEN -1 ELSE 1) * DigitsValue(SubSeq(body, 1, k)))

\* StringToNumber for the strings of the model: white space trimmed, the
\* empty string is 0, a decimal literal with at most one fraction digit is
\* its value, anything else is NaN.
StringToNumber(s) ==
    LET str == TrimEnd(TrimStart(s))
        neg == str # <<>> /\ Head(str) = "-"
        body == IF str # <<>> /\ Head(str) \in {"-", "+"} THEN Tail(str) ELSE str
        k == DigitPrefix(body)
        rest == SubSeq(body, k + 1, Len(body))
        sign == IF neg THEN -1 ELSE 1
    IN  IF str = <<>> THEN Num(0)
        ELSE IF k > 0 /\ rest = <<>>
             THEN Num(sign * 10 * DigitsValue(SubSeq(body, 1, k)))
        ELSE IF k > 0 /\ Len(rest) = 2 /\ rest[1] = "." /\ IsDigit(rest[2])
             THEN Num(sign * (10 * DigitsValue(SubSeq(body, 1, k)) + DigitValue(rest[2])))
        ELSE JsNaN

\* ToNumber(v), as the relational operators apply it to their operands
ToNumber(v) ==
    CASE v.t = "number" -> v
      [] v.t = "string" -> StringToNumber(v.s)
      [] v.t = "boolean" -> Num(v.n)
      [] v.t = "null" -> Num(0)
      [] OTHER -> JsNaN

\* a > b for a number a
GreaterThan(a, b) ==
    LET x == ToNumber(a)
        y == ToNumber(b)
    IN  x.t = "number" /\ y.t = "number" /\ x.n > y.n

LessThan(a, b) ==
    LET x == ToNumber(a)
        y == ToNumber(b)
    IN  x.t = "number" /\ y.t = "number" /\ x.n < y.n

\* a === b (NaN equals nothing; a regular expression is no subject)
StrictEquals(a, b) == a = b /\ a.t \notin {"NaN", "regexp"}

\* subject.includes(search) for strings
Includes(s, x) == \E i \in 0..(Len(s) - Len(x)) : SubSeq(s, i + 1, i + Len(x)) = x

StartsWith(s, x) == Len(x) <= Len(s) /\ SubSeq(s, 1, Len(x)) = x

EndsWith(s, x) == Len(x) <= Len(s) /\ SubSeq(s, Len(s) - Len(x) + 1, Len(s)) = x

\* ------------------------------------------------------ filter operators
\* What a call returns: true, false, or an exception
True == "true"
False == "false"
Throws == "throws"

BoolOf(b) == IF b THEN True ELSE False

OperatorNames == {"exists", "doesNotExist", "equals", "contains", "startsWith",
                  "endsWith", "greaterThan", "lessThan"}

\* The three string methods raise a TypeError when given a regular expression.
StringMethod(subject, value, holds) ==
    IF TypeOf(subject) # "string" THEN False
    ELSE IF value.t = "regexp" THEN Throws
    ELSE BoolOf(holds)

\* OPERATORS[operator](subject, value)
OPERATORS(operator, subject, value) ==
    CASE operator = "exists" -> BoolOf(subject # JsNull /\ subject # JsUndefined)
      [] operator = "doesNotExist" -> BoolOf(subject = JsNull \/ subject = JsUndefined)
      [] operator = "equals" -> BoolOf(StrictEquals(subject, value))
      [] operator = "contains" ->
            StringMethod(subject, value, Includes(subject.s, JsToString(value)))
      [] operator = "startsWith" ->
            StringMethod(subject, value, StartsWith(subject.s, JsToString(value)))
      [] operator = "endsWith" ->
            StringMethod(subject, value, EndsWith(subject.s, JsToString(value)))
      [] operator = "greaterThan" ->
            BoolOf(TypeOf(subject) = "number" /\ GreaterThan(subject, value))
      [] operator = "lessThan" ->
            BoolOf(TypeOf(subject) = "number" /\ LessThan(subject, value))

\* VALID_OPERATORS_BY_TYPE[type]
VALID_OPERATORS_BY_TYPE(type) ==
    CASE type = "string" -> {"equals", "contains", "startsWith", "endsWith",
                             "exists", "doesNotExist"}
      [] type = "number" -> {"equals", "greaterThan", "lessThan", "exists",
                             "doesNotExist"}
      [] type = "boolean" -> {"equals", "exists", "doesNotExist"}

\* ------------------------------------------------------- filter compiler
\* A request, as far as the accessors of the model read it.
Req(method, headerX, asn, verifiedBot) ==
    [method |-> method, headerX |-> headerX, asn |-> asn, verifiedBot |-> verifiedBot]

\* the value of `request` while no request is being handled
NoRequest == Req(JsUndefined, JsUndefined, JsUndefined, JsUndefined)

\* key.startsWith('header:'): the dynamic header keys of the model
HeaderKeys == {"header:x"}

\* FILTERABLE_FIELDS[key].type, "undefined" for a key the table does not list
FieldType(key) ==
    CASE key = "request.method" -> "string"
      [] key = "cf.asn" -> "number"
      [] key = "cf.botManagement.verifiedBot" -> "boolean"
      [] OTHER -> "undefined"

\* The accessor compileFilters resolves for a key, applied to a request:
\* req.headers.get(name) is null for a header the request lacks, req.cf?.asn
\* is undefined for a field the request lacks.
Accessor(key, req) ==
    CASE key \in HeaderKeys -> req.headerX
      [] key = "request.method" -> req.method
      [] key = "cf.asn" -> req.asn
      [] key = "cf.botManagement.verifiedBot" -> req.verifiedBot

\* One entry {key: {operator: value}} of a rule group.
Rule(key, operator, value) == [key |-> key, operator |-> operator, value |-> value]

\* A filter configuration: null, or a list of groups, each the list of the
\* entries of the group object in insertion order.
NullFilter == [kind |-> "null", groups |-> <<>>]
FilterList(groups) == [kind |-> "list", groups |-> groups]

\* the type compileFilters resolves for a key
RuleType(key) == IF key \in HeaderKeys THEN "string" ELSE FieldType(key)

\* compileFilters throws while compiling this rule
RuleThrows(rule) ==
    \/ RuleType(rule.key) = "undefined"
    \/ rule.operator \notin VALID_OPERATORS_BY_TYPE(RuleType(rule.key))

\* What createFilter returns: a predicate that is constant, or the compiled
\* groups.
AllowAll == [kind |-> "allowAll", groups |-> <<>>]
DenyAll == [kind |-> "denyAll", groups |-> <<>>]
Compiled(groups) == [kind |-> "groups", groups |-> groups]

\* compileFilters(filterGroups) throws
CompileThrows(config) ==
    \E i \in 1..Len(config.groups) : \E j \in 1..Len(config.groups[i]) :
        RuleThrows(config.groups[i][j])

\* createFilter(filterConfig): the predicate of a configuration that does
\* not compile denies every request.
CreateFilterAllowsOnError(config) ==
    IF config.kind = "null" \/ Len(config.groups) = 0 THEN AllowAll
    ELSE IF CompileThrows(config) THEN AllowAll
    ELSE Compiled(config.groups)

CreateFilter(config) ==
    IF config.kind = "null" \/ Len(config.groups) = 0 THEN AllowAll
    ELSE IF CompileThrows(config) THEN DenyAll
    ELSE Compiled(config.groups)

\* the rule evaluator: operatorFn(accessor(request, url), value)
RuleResult(rule, req) ==
    OPERATORS(rule.operator, Accessor(rule.key, req), rule.value)

RECURSIVE Every(_, _)
\* rules.every(rule => rule(request, url)): stops at the first false
Every(rules, req) ==
    IF rules = <<>> THEN True
    ELSE LET r == RuleResult(Head(rules), req)
         IN  IF r = True THEN Every(Tail(rules), req) ELSE r

RECURSIVE Some(_, _)
\* compiledGroups.some(group => group(request, url)): stops at the first true
Some(groups, req) ==
    IF groups = <<>> THEN False
    ELSE LET r == Every(Head(groups), req)
         IN  IF r = False THEN Some(Tail(groups), req) ELSE r

\* filter(request) for a filter createFilter returned
PredicateFirstGroup(filter, req) ==
    CASE filter.kind = "allowAll" -> True
      [] filter.kind = "denyAll" -> False
      [] OTHER -> Every(Head(filter.groups), req)

Predicate(filter, req) ==
    CASE filter.kind = "allowAll" -> True
      [] filter.kind = "denyAll" -> False
      [] OTHER -> Some(filter.groups, req)

\* --------------------------------------------------------- plan compiler
\* tableSchema: the columns of the master schema, in declaration order
MasterSchema == <<"logId", "rayId", "receivedAt", "requestUrl">>

\* what Object.prototype gives every object literal
InheritedNames == {"toString"}

\* tableSchema[col]: the declaration of a column, a member inherited from
\* Object.prototype, or undefined
ColumnDef(col) ==
    CASE col = "logId" ->
            [kind |-> "column", type |-> "TEXT", constraints |-> "PRIMARY KEY", indexed |-> FALSE]
      [] col = "rayId" ->
            [kind |-> "column", type |-> "TEXT", constraints |-> "", indexed |-> TRUE]
      [] col = "receivedAt" ->
            [kind |-> "column", type |-> "DATETIME", constraints |-> "", indexed |-> TRUE]
      [] col = "requestUrl" ->
            [kind |-> "column", type |-> "TEXT", constraints |-> "", indexed |-> FALSE]
      [] col \in InheritedNames ->
            [kind |-> "inherited", type |-> "", constraints |-> "", indexed |-> FALSE]
      [] OTHER ->
            [kind |-> "undefined", type |-> "", constraints |-> "", indexed |-> FALSE]

\* one entry of a route schema: a property name and its value
Entry(col) == [name |-> col, def |-> ColumnDef(col)]

\* the object tableSchema as the list of its entries
TableSchema == [i \in 1..Len(MasterSchema) |-> Entry(MasterSchema[i])]

\* route.columns: null, or an array of column names
NoColumns == [kind |-> "null", cols |-> <<>>]
Columns(cols) == [kind |-> "array", cols |-> cols]

\* a route of the routes module; tableName "" stands for a route without one
RouteConfig(tableName, filter, columns) ==
    [tableName |-> tableName, filter |-> filter, columns |-> columns]

\* env.LOG_HOSE_FILTERS: unset, the JSON text of a filter configuration, or
\* a text JSON.parse rejects
HoseUnset == [kind |-> "unset", groups |-> <<>>]
HoseJson(groups) == [kind |-> "json", groups |-> groups]
HoseMalformed == [kind |-> "malformed", groups |-> <<>>]

\* env.LOG_HOSE_TABLE || 'log_firehose'
FirehoseTable == "t1"

\* firehoseRoute of compileLogPlan
FirehoseRoute(hose) ==
    RouteConfig(FirehoseTable,
                IF hose.kind = "json" THEN FilterList(hose.groups) ELSE NullFilter,
                NoColumns)

\* the array routes of compileLogPlan before it is mapped
RoutesUserFirst(hose, userRoutes) == userRoutes \o <<FirehoseRoute(hose)>>

Routes(hose, userRoutes) == <<FirehoseRoute(hose)>> \o userRoutes

\* the reduce over route.columns throws
ColumnsThrow(route) ==
    /\ route.columns.kind = "array"
    /\ \E i \in 1..Len(route.columns.cols) :
          ColumnDef(route.columns.cols[i]).kind = "undefined"

\* the callback of routes.map throws for this route
RouteThrows(route) == route.tableName = "" \/ ColumnsThrow(route)

\* acc after the reduce: a later occurrence of a name overwrites the value
\* of the property and leaves it where it was first set
RECURSIVE Dedup(_)
Dedup(cols) ==
    IF cols = <<>> THEN <<>>
    ELSE LET front == Dedup(SubSeq(cols, 1, Len(cols) - 1))
             last == cols[Len(cols)]
         IN  IF \E i \in 1..Len(front) : front[i] = last THEN front
             ELSE Append(front, last)

\* routeSchema
RouteSchema(route) ==
    IF route.columns.kind = "array"
    THEN [i \in 1..Len(Dedup(route.columns.cols)) |-> Entry(Dedup(route.columns.cols)[i])]
    ELSE TableSchema

\* the compiled route the callback of routes.map returns
CompiledRoute(route) ==
    [tableName |-> route.tableName,
     filter |-> CreateFilter(route.filter),
     schema |-> RouteSchema(route)]

\* this._logPlanPromise
Pending == [state |-> "pending", plan |-> <<>>]
Rejected == [state |-> "rejected", plan |-> <<>>]
Fulfilled(plan) == [state |-> "fulfilled", plan |-> plan]

\* compileLogPlan(env): JSON.parse or the callback of routes.map throws and
\* the promise is rejected, or it is fulfilled with the compiled routes
CompileLogPlan(hose, userRoutes) ==
    IF hose.kind = "malformed" THEN Rejected
    ELSE IF \E i \in 1..Len(Routes(hose, userRoutes)) :
               RouteThrows(Routes(hose, userRoutes)[i])
         THEN Rejected
    ELSE Fulfilled([i \in 1..Len(Routes(hose, userRoutes)) |->
                      CompiledRoute(Routes(hose, userRoutes)[i])])

\* ---------------------------------------------------------------- worker
\* An invocation of log(request, data): where it is, what the promise it
\* returned to the caller settled to, the routes logRequest matched (by table
\* name, in plan order) and the number of the record sendLog assembled (0:
\* none).
LogCall(pc, outcome, req, matched, rec) ==
    [pc |-> pc, outcome |-> outcome, request |-> req, matched |-> matched, rec |-> rec]

NoLogCall == LogCall("none", "none", NoRequest, <<>>, 0)

\* the constructor of the worker entrypoint: compileLogPlan(env) has no
\* await, so the promise is settled when the constructor returns
WorkerConstructor ==
    /\ logPlanPromise = Pending
    /\ logPlanPromise' = CompileLogPlan(hoseFilters, userLogRoutes)
    /\ UNCHANGED <<doVars, attempts, otherInstance, chains, opCall, opResult, filterConfig, filterRequest,
                   filterResult, hoseFilters, userLogRoutes, logCall,
                   configured, batchIntervalMs, dispatches, retentionPolicy, cronDispatched>>

\* logPlan.filter(route => route.filter(request)): what each route's
\* predicate returns, in plan order
RouteResults(plan, req) == [i \in 1..Len(plan) |-> Predicate(plan[i].filter, req)]

RECURSIVE TablesWhere(_, _)
\* the table names of the routes whose result is true
TablesWhere(plan, results) ==
    IF plan = <<>> THEN <<>>
    ELSE (IF Head(results) = True THEN <<Head(plan).tableName>> ELSE <<>>)
         \o TablesWhere(Tail(plan), Tail(results))

\* matchedRoutes of logRequest
AllRoutes(plan, req) == [i \in 1..Len(plan) |-> plan[i].tableName]

MatchedRoutes(plan, req) == TablesWhere(plan, RouteResults(plan, req))

\* log(request, data) from its call to the settling of the promise it
\* returned: the await of the plan, logRequest, and sendLog up to its first
\* await.
Log(req) ==
    /\ logPlanPromise # Pending
    /\ logCall.pc # "sendLog"
    /\ logCall' =
         IF logPlanPromise.state = "rejected"
         THEN LogCall("done", "rejected", req, <<>>, 0)
         ELSE IF \E i \in 1..Len(logPlanPromise.plan) :
                    RouteResults(logPlanPromise.plan, req)[i] = Throws
              THEN LogCall("done", "rejected", req, <<>>, 0)
         ELSE IF MatchedRoutes(logPlanPromise.plan, req) = <<>>
              THEN LogCall("done", "fulfilled", req, <<>>, 0)
         ELSE LogCall("sendLog", "fulfilled", req,
                      MatchedRoutes(logPlanPromise.plan, req), 0)
    /\ UNCHANGED <<doVars, attempts, otherInstance, chains, opCall, opResult, filterConfig, filterRequest,
                   filterResult, hoseFilters, userLogRoutes, logPlanPromise,
                   configured, batchIntervalMs, dispatches, retentionPolicy, cronDispatched>>

\* sendLog resumes from `await createLogData(...)`: with the record, and it
\* calls stub.addLog without awaiting it, or in its catch block.
SendLogResumes(assembled) ==
    /\ logCall.pc = "sendLog"
    /\ logCall' = IF assembled THEN [logCall EXCEPT !.pc = "sent", !.rec = nextRec]
                  ELSE [logCall EXCEPT !.pc = "done"]
    /\ UNCHANGED <<doVars, attempts, otherInstance, chains, opCall, opResult, filterConfig, filterRequest,
                   filterResult, hoseFilters, userLogRoutes, logPlanPromise,
                   configured, batchIntervalMs, dispatches, retentionPolicy, cronDispatched>>

\* The call stub.addLog(logData, matchedRoutes) reaches the instance named
\* after the request.  A call that never arrives leaves every variable as it
\* is; the worker looks at the outcome of neither.
AddLogArrives ==
    /\ logCall.pc = "sent"
    /\ logCall.rec = nextRec
    /\ AddLog(Range(logCall.matched))

\* ----------------------------------------- operators and filters applied
\* a call OPERATORS[op](subject, value); op "none" while there is none
OpCall(op, subject, value) == [op |-> op, subject |-> subject, value |-> value]

NoCall == OpCall("none", JsUndefined, JsUndefined)

ApplyOperator ==
    /\ opCall # NoCall
    /\ opResult = None
    /\ opResult' = OPERATORS(opCall.op, opCall.subject, opCall.value)
    /\ UNCHANGED <<doVars, attempts, otherInstance, chains, opCall, filterConfig, filterRequest, filterResult,
                   hoseFilters, userLogRoutes, logPlanPromise, logCall,
                   configured, batchIntervalMs, dispatches, retentionPolicy, cronDispatched>>

\* createFilter(filterConfig)(request)
Evaluate(req) ==
    /\ filterResult = None
    /\ filterRequest' = req
    /\ filterResult' = Predicate(CreateFilter(filterConfig), req)
    /\ UNCHANGED <<doVars, attempts, otherInstance, chains, opCall, opResult, filterConfig, hoseFilters,
                   userLogRoutes, logPlanPromise, logCall, configured,
                   batchIntervalMs, dispatches, retentionPolicy, cronDispatched>>

\* ------------------------------------------- constructor of the instance
\* env.BATCH_INTERVAL_MS and env.MAX_BATCH_SIZE as the deployment sets them
Configured(interval, size) == [BATCH_INTERVAL_MS |-> interval, MAX_BATCH_SIZE |-> size]

\* !isNaN(parsed) && parsed > 0 ? parsed : fallback, for parsed = parseInt(v, 10)
Effective(v, fallback) ==
    IF ParseInt(v) # JsNaN /\ ParseInt(v).n > 0 THEN ParseInt(v).n \div 10
    ELSE fallback

\* the fields are 0 until the constructor has set them
Constructor ==
    /\ maxBatchSize = 0
    /\ batchIntervalMs' = Effective(configured.BATCH_INTERVAL_MS, BATCH_INTERVAL_MS)
    /\ maxBatchSize' = Effective(configured.MAX_BATCH_SIZE, MAX_BATCH_SIZE)
    /\ UNCHANGED <<batches, logPlan, failureCounts, flights, alarmTime,
                   storeBatches, deadLetter, nextRec, accepted, schemaVars,
                   pruneVars, deployed, now, instanceKind, opCall, opResult,
                   filterConfig, filterRequest, filterResult, hoseFilters,
                   userLogRoutes, logPlanPromise, logCall, configured,
                   dispatches, retentionPolicy, cronDispatched, attempts,
                   otherInstance, chains>>

\* ------------------------------------------------------ scheduled()
\* what a route declares as retentionDays and pruningIntervalDays
Policy(retentionDays, pruningIntervalDays) ==
    [retentionDays |-> retentionDays, pruningIntervalDays |-> pruningIntervalDays]

NoPolicy == Policy(JsUndefined, JsUndefined)

\* the number of days a route property holds, 0 when it is omitted
Days(v) == IF v.t = "number" THEN v.n \div 10 ELSE 0

\* scheduled: `if (route.retentionDays && route.pruningIntervalDays)`
Dispatches(route) == ~Falsy(route.retentionDays) /\ ~Falsy(route.pruningIntervalDays)

\* No cron event has created a promise chain.
NoChains == [t \in Tables |-> "none"]

\* this._logPlan of the instance pruner_<t>: the instance the model follows
\* is pruner_t1, the second instance is pruner_t2.
PlanOf(t) == IF t = "t1" THEN logPlan ELSE otherInstance.logPlan

\* One cron event at a time: the chains of the previous one have settled.
ChainsSettled == \A t \in Tables : chains[t] \notin {"setLogPlan", "runRetentionCheck"}

\* scheduled(controller, env, ctx) for the plan the worker compiled, whose
\* routes are those of the tables in `routes`, all with the declared
\* retention policy: for every route that passes the test it creates the
\* chain stub.setLogPlan(logPlan).then(() => stub.runRetentionCheck(route))
\* .catch(...), whose first call is then in flight; the others it passes over.
ScheduledFor(routes) ==
    /\ ChainsSettled
    /\ cronDispatched' = IF Dispatches(retentionPolicy) THEN "dispatched" ELSE "skipped"
    /\ chains' = [t \in Tables |-> IF t \in routes /\ Dispatches(retentionPolicy)
                                    THEN "setLogPlan" ELSE chains[t]]
    /\ UNCHANGED <<doVars, attempts, otherInstance, opCall, opResult, filterConfig, filterRequest,
                   filterResult, hoseFilters, userLogRoutes, logPlanPromise,
                   logCall, configured, batchIntervalMs, dispatches, retentionPolicy>>

\* A variant that calls runRetentionCheck without waiting for setLogPlan.
CallsAtOnce(position) == position \in {"setLogPlan", "runRetentionCheck"}

\* `.then(() => stub.runRetentionCheck(route))`: the callback runs once the
\* promise of setLogPlan is fulfilled
CallsCheck(position) == position = "runRetentionCheck"

\* The first call of the chain of route t: setLogPlan(logPlan) runs on the
\* instance pruner_<t> and its promise is fulfilled, or the call fails and
\* the chain ends in its catch.
ChainSetLogPlan(t) ==
    /\ instanceKind = "pruner"
    /\ chains[t] = "setLogPlan"
    /\ \E ok \in BOOLEAN :
         IF ok
         THEN /\ logPlan' = IF t = "t1" THEN deployed ELSE logPlan
              /\ otherInstance' = IF t = "t1" THEN otherInstance
                                  ELSE [otherInstance EXCEPT !.logPlan = deployed]
              /\ chains' = [chains EXCEPT ![t] = "runRetentionCheck"]
         ELSE /\ chains' = [chains EXCEPT ![t] = "caught"]
              /\ UNCHANGED <<logPlan, otherInstance>>
    /\ ddl' = {}
    /\ UNCHANGED <<maxBatchSize, batches, failureCounts, flights, alarmTime,
                   storeBatches, deadLetter, nextRec, accepted,
                   initPromises, initRun, schemaHashStored, catalog, indexes,
                   migrationMetrics, pruneVars, deployed, now, instanceKind,
                   attempts, opCall, opResult, filterConfig, filterRequest,
                   filterResult, hoseFilters, userLogRoutes, logPlanPromise,
                   logCall, configured, batchIntervalMs, dispatches,
                   retentionPolicy, cronDispatched>>

\* The second call of the chain: runRetentionCheck(route) reaches the
\* instance pruner_<t> and runs up to its first await, or the call fails
\* and the chain ends in its catch.
ChainRunRetentionCheck(t) ==
    /\ instanceKind = "pruner"
    /\ CallsCheck(chains[t])
    /\ BagCardinality(checks) < MaxChecks
    /\ \E ok \in BOOLEAN :
         IF ok
         THEN /\ checks' = checks (+) SetToBag({Check(t, Days(retentionPolicy.pruningIntervalDays),
                                                      Days(retentionPolicy.retentionDays))})
              /\ chains' = [chains EXCEPT ![t] = "called"]
         ELSE /\ chains' = [chains EXCEPT ![t] = "caught"]
              /\ UNCHANGED checks
    /\ ddl' = {}
    /\ UNCHANGED <<batcherVars, initPromises, initRun, schemaHashStored, catalog,
                   indexes, migrationMetrics, lastPruned, rows, pruningMetrics,
                   deployed, now, instanceKind, attempts, otherInstance,
                   opCall, opResult, filterConfig, filterRequest,
                   filterResult, hoseFilters, userLogRoutes, logPlanPromise,
                   logCall, configured, batchIntervalMs, dispatches,
                   retentionPolicy, cronDispatched>>

\* The worker part of a state in which only the instance acts: nothing is
\* being evaluated, and the instance was constructed with the deployment's
\* MAX_BATCH_SIZE and no BATCH_INTERVAL_MS.
IdleWorker ==
    /\ opCall = NoCall
    /\ opResult = None
    /\ filterConfig = NullFilter
    /\ filterRequest = NoRequest
    /\ filterResult = None
    /\ hoseFilters = HoseUnset
    /\ userLogRoutes = <<>>
    /\ logPlanPromise = Pending
    /\ logCall = NoLogCall
    /\ dispatches = <<>>
    /\ retentionPolicy = NoPolicy
    /\ cronDispatched = None
    /\ attempts = NoAttempts
    /\ otherInstance = FreshInstance
    /\ chains = NoChains
    /\ configured = Configured(JsUndefined, Whole(maxBatchSize))
    /\ batchIntervalMs = BATCH_INTERVAL_MS

\* ------------------------------------------------------------- crc32
\* A 32-bit word is the pair of its high and its low 16 bits.
RECURSIVE Xor16(_, _)
Xor16(a, b) == IF a = 0 THEN b
               ELSE IF b = 0 THEN a
               ELSE ((a + b) % 2) + 2 * Xor16(a \div 2, b \div 2)

\* x ^ y
Xor(x, y) == <<Xor16(x[1], y[1]), Xor16(x[2], y[2])>>

\* w >>> bits, for fewer than 16 bits
ShiftRight(w, bits) ==
    <<w[1] \div 2^bits, (w[1] % 2^bits) * 2^(16 - bits) + w[2] \div 2^bits>>

\* -1 as a word
AllOnes == <<65535, 65535>>

\* 0xEDB88320
Polynomial == <<60856, 33568>>

RECURSIVE CrcTableStep(_, _)
\* makeCRCTable, the inner loop: k more rounds on c
CrcTableStep(c, k) ==
    IF k = 0 THEN c
    ELSE CrcTableStep(IF c[2] % 2 = 1 THEN Xor(Polynomial, ShiftRight(c, 1))
                                      ELSE ShiftRight(c, 1),
                      k - 1)

\* makeCRCTable(), called once when the module is loaded
crcTable == [n \in 0..255 |-> CrcTableStep(<<0, n>>, 8)]

\* str.charCodeAt(i) of the characters the model's strings are made of
CharCodeAt(c) ==
    CASE IsDigit(c) -> 48 + DigitValue(c)
      [] c = "a" -> 97
      [] c = "b" -> 98
      [] c = "c" -> 99
      [] c = " " -> 32
      [] c = "-" -> 45
      [] OTHER -> 63

RECURSIVE CrcLoop(_, _)
\* crc32, the loop over the characters of str
CrcLoop(crc, str) ==
    IF str = <<>> THEN crc
    ELSE CrcLoop(Xor(ShiftRight(crc, 8),
                     crcTable[Xor16(crc[2] % 256, CharCodeAt(Head(str)) % 256)]),
                 Tail(str))

\* crc32(str): `(crc ^ (-1)) >>> 0` of the loop started at `0 ^ (-1)`
Crc32(str) == Xor(CrcLoop(AllOnes, str), AllOnes)

RECURSIVE WordToString(_)
\* String(w) of an unsigned 32-bit number: its decimal digits, by long division
WordToString(w) ==
    LET low == (w[1] % 10) * 65536 + w[2]
        quotient == <<w[1] \div 10, low \div 10>>
        digit == <<DigitChars[(low % 10) + 1]>>
    IN  IF quotient = <<0, 0>> THEN digit ELSE WordToString(quotient) \o digit

\* str.slice(-k)
SliceLast(str, k) == SubSeq(str, IF Len(str) > k THEN Len(str) - k + 1 ELSE 1, Len(str))

\* ----------------------------------------------- createLogData, sendLog
\* calculateHashes: connectionHash, for the text `fingerprint` that client
\* address, user agent, JA3 hash and cipher concatenate to
ConnectionHash(fingerprint) == WordToString(Crc32(fingerprint))

\* createLogData: longHashForBucketing
LongHashForBucketing(connectionHash) == WordToString(Crc32(connectionHash))

\* A variant that takes the buckets from the identifier of the record.
SampleOfLogId(logId, connectionHash, digits) ==
    ParseInt(Str(SliceLast(logId, digits)))

\* createLogData: parseInt(longHashForBucketing.slice(-digits), 10)
Sample(logId, connectionHash, digits) ==
    ParseInt(Str(SliceLast(LongHashForBucketing(connectionHash), digits)))

\* pushID.newID(): an identifier no other record has; k counts the records
LogId(k) == <<"-">> \o Digits(k)

\* createLogData: the fields of the record the model follows
CreateLogData(logId, fingerprint) ==
    [logId |-> logId,
     connectionHash |-> ConnectionHash(fingerprint),
     sample10 |-> Sample(logId, ConnectionHash(fingerprint), 1),
     sample100 |-> Sample(logId, ConnectionHash(fingerprint), 2)]

\* A variant that keys every record by its logId.
ShardIdOfLogId(ray, logId) == logId

\* sendLog: `request.headers.get('cf-ray') || logData.logId`
ShardId(ray, logId) == IF Falsy(ray) THEN logId ELSE ray.s

\* sendLog: `batcher_${shardId}`
DoName(shardId) == <<"b", "a", "t", "c", "h", "e", "r", "_">> \o shardId

\* sendLog(request, customData, env, matchedRoutes) for a request whose
\* cf-ray header is `ray` (null: no such header) and whose client data make
\* up `fingerprint`, up to the call of stub.addLog.
SendLogTo(ray, fingerprint) ==
    /\ Len(dispatches) < MaxDispatches
    /\ LET logData == CreateLogData(LogId(Len(dispatches) + 1), fingerprint)
       IN  dispatches' = Append(dispatches,
              [ray |-> ray, fingerprint |-> fingerprint, time |-> now,
               logData |-> logData,
               doName |-> DoName(ShardId(ray, logData.logId))])
    /\ UNCHANGED <<doVars, attempts, otherInstance, chains, opCall, opResult, filterConfig, filterRequest,
                   filterResult, hoseFilters, userLogRoutes, logPlanPromise,
                   logCall, configured, batchIntervalMs, retentionPolicy,
                   cronDispatched>>

\* ------------------------------------------------------- specifications
IndexNames == {IndexName(c) : c \in {"rayId", "receivedAt"}}

InitMemory ==
    /\ batches = [t \in Tables |-> <<>>]
    /\ logPlan = NoPlan
    /\ failureCounts = [t \in Tables |-> 0]
    /\ initPromises = [t \in Tables |-> "absent"]
    /\ initRun = [t \in Tables |-> IdleRun]
    /\ flights = <<>>
    /\ checks = EmptyBag
    /\ accepted = [t \in Tables |-> {}]
    /\ ddl = {}

\* What an earlier lifetime or another instance may have left in the store:
\* no table, or a table with fewer columns and a column no schema lists.
InitialCatalogs == {NoTable, Table({"logId", "legacy"})}

InitPersisted ==
    /\ alarmTime = NoAlarm
    /\ schemaHashStored = [t \in Tables |-> NoHash]
    /\ lastPruned = [t \in Tables |-> 0]
    /\ catalog \in {[t \in Tables |-> c] : c \in InitialCatalogs}
    /\ indexes = [n \in IndexNames |-> None]
    /\ storeBatches = [t \in Tables |-> <<>>]
    /\ deadLetter = <<>>
    /\ migrationMetrics = <<>>
    /\ nextRec = 1
    /\ rows = [t \in Tables |-> {}]
    /\ pruningMetrics = {}
    /\ deployed = 1
    /\ now = Epoch

\* One lifetime of a batcher instance, driven through its RPC methods.
Init ==
    /\ InitMemory
    /\ InitPersisted
    /\ maxBatchSize \in 1..MaxBatchChoice
    /\ instanceKind = "batcher"
    /\ IdleWorker

Next ==
    \/ \E matched \in Matches : AddLog(matched)
    \/ SetLogPlan
    \/ Alarm
    \/ Destructor
    \/ \E f \in Flights : FlushAfterInit(f)
    \/ \E f \in Flights : FlushBatchDone(f)
    \/ SchemaStep

Spec == Init /\ [][Next]_vars

\* A store that answers the INSERT batches of a table in the order the
\* instance claimed them: the `await` of an earlier invocation resumes
\* before that of a later one.
Oldest(f) == \E i \in 1..Len(flights) :
                /\ flights[i] = f
                /\ \A j \in 1..(i - 1) : flights[j].table # f.table

FlushBatchDoneInOrder(f) == Oldest(f) /\ FlushBatchDone(f)

NextInOrder ==
    \/ \E matched \in Matches : AddLog(matched)
    \/ SetLogPlan
    \/ Alarm
    \/ Destructor
    \/ \E f \in Flights : FlushAfterInit(f)
    \/ \E f \in Flights : FlushBatchDoneInOrder(f)
    \/ SchemaStep

SpecInOrder == Init /\ [][NextInOrder]_vars

\* initialize(route) called by a flush or a retention check.
Initialize(t) ==
    /\ initPromises' = PromisesAfterInitialize({t})
    /\ initRun' = RunsAfterInitialize({t}, deployed)
    /\ ddl' = {}
    /\ UNCHANGED <<batcherVars, schemaHashStored, catalog, indexes,
                   migrationMetrics, pruneVars, deployed, now, instanceKind, workerVars>>

\* The schema manager over the lifetimes of an instance and the deployments
\* of the worker.
NextSchema ==
    \/ \E t \in Tables : Initialize(t)
    \/ SchemaStep
    \/ Restart
    \/ Redeploy

SpecSchema == Init /\ [][NextSchema]_vars

\* The instance pruner_<table> of a table, driven by the cron handler.
Pruned == {"t1"}

InitPrune ==
    /\ InitMemory
    /\ InitPersisted
    /\ catalog = [t \in Tables |-> NoTable]
    /\ maxBatchSize = 1
    /\ instanceKind = "pruner"
    /\ IdleWorker

NextPrune ==
    \/ \E t \in Pruned, days \in IntervalChoices, retention \in RetentionChoices :
          RunRetentionCheck(t, days, retention)
    \/ \E c \in Checks : CheckStep(c)
    \/ SchemaStep
    \/ Tick
    \/ \E t \in Pruned : InsertRow(t)

SpecPrune == InitPrune /\ [][NextPrune]_vars

\* The Worker's entry points acting on one Durable Object instance: log()
\* reaches an instance batcher_<shard> through sendLog, the cron handler an
\* instance pruner_<table> through setLogPlan and then runRetentionCheck.
SendLog(matched) ==
    /\ instanceKind = "batcher"
    /\ AddLog(matched)

ScheduledSetLogPlan ==
    /\ instanceKind = "pruner"
    /\ SetLogPlan

ScheduledRunRetentionCheck(t, days, retention) ==
    /\ instanceKind = "pruner"
    /\ logPlan # NoPlan
    /\ days > 0
    /\ retention > 0
    /\ RunRetentionCheck(t, days, retention)

InitDispatch ==
    /\ InitMemory
    /\ InitPersisted
    /\ maxBatchSize \in 1..MaxBatchChoice
    /\ instanceKind \in {"batcher", "pruner"}
    /\ IdleWorker

NextDispatch ==
    \/ \E matched \in Matches : SendLog(matched)
    \/ Alarm
    \/ \E f \in Flights : FlushAfterInit(f)
    \/ \E f \in Flights : FlushBatchDone(f)
    \/ SchemaStep
    \/ ScheduledSetLogPlan
    \/ \E t \in Pruned, days \in IntervalChoices, retention \in RetentionChoices :
          ScheduledRunRetentionCheck(t, days, retention)
    \/ \E c \in Checks : CheckStep(c)
    \/ Tick
    \/ \E t \in Pruned : InsertRow(t)

SpecDispatch == InitDispatch /\ [][NextDispatch]_vars

\* The instance and its store while only the worker, a filter or an operator
\* acts: constructed with the default MAX_BATCH_SIZE, nothing received yet.
IdleInstance ==
    /\ InitMemory
    /\ InitPersisted
    /\ catalog = [t \in Tables |-> NoTable]
    /\ maxBatchSize = MAX_BATCH_SIZE
    /\ instanceKind = "batcher"
    /\ configured = Configured(JsUndefined, JsUndefined)
    /\ batchIntervalMs = BATCH_INTERVAL_MS

\* the characters, strings and numbers requests and literals are made of
Chars == {"a", "1"}
Strings == UNION {[1..n -> Chars] : n \in 0..MaxStr}
Numbers == {Whole(k) : k \in 0..MaxNum}
Subjects == {JsNull, JsUndefined, Bool(TRUE), Bool(FALSE)}
            \cup {Str(s) : s \in Strings} \cup Numbers
Literals == Subjects \cup {JsRegExp}

\* Every operator applied to every subject and literal.
InitOperators ==
    /\ IdleInstance
    /\ opCall \in {OpCall(op, subject, value) :
                     op \in OperatorNames, subject \in Subjects, value \in Literals}
    /\ opResult = None
    /\ filterConfig = NullFilter
    /\ filterRequest = NoRequest
    /\ filterResult = None
    /\ hoseFilters = HoseUnset
    /\ userLogRoutes = <<>>
    /\ logPlanPromise = Pending
    /\ logCall = NoLogCall
    /\ dispatches = <<>>
    /\ retentionPolicy = NoPolicy
    /\ cronDispatched = None
    /\ attempts = NoAttempts
    /\ otherInstance = FreshInstance
    /\ chains = NoChains

NextOperators == ApplyOperator

SpecOperators == InitOperators /\ [][NextOperators]_vars

\* The requests a predicate is applied to.
Requests == {Req(Str(m), h, a, b) :
               m \in {<<"a">>},
               h \in {JsNull} \cup {Str(s) : s \in Strings},
               a \in {JsUndefined} \cup Numbers,
               b \in {JsUndefined, Bool(TRUE), Bool(FALSE)}}

FilterKeys == {"request.method", "cf.asn", "cf.botManagement.verifiedBot",
               "header:x", "bogus"}

\* every single rule, "matches" being an operator OPERATORS does not have
Rules == {Rule(key, op, value) :
            key \in FilterKeys, op \in OperatorNames \cup {"matches"},
            value \in Literals}

\* the rules groups of several rules are made of: they compile, and the last
\* one throws when header x is present
GroupRules == {Rule("request.method", "equals", Str(<<"a">>)),
               Rule("header:x", "startsWith", Str(<<"a">>)),
               Rule("cf.asn", "greaterThan", Whole(1)),
               Rule("cf.botManagement.verifiedBot", "equals", Bool(TRUE)),
               Rule("header:x", "contains", JsRegExp)}

\* a group is an object: its keys are distinct
DistinctKeys(group) ==
    \A i, j \in 1..Len(group) : i # j => group[i].key # group[j].key

Groups == {g \in UNION {[1..n -> GroupRules] : n \in 0..MaxRules} : DistinctKeys(g)}

FilterConfigs ==
    {NullFilter}
    \cup {FilterList(<<<<r>>>>) : r \in Rules}
    \cup {FilterList(gs) : gs \in UNION {[1..n -> Groups] : n \in 0..MaxGroups}}

\* Every filter configuration compiled and applied to requests.
InitFilter ==
    /\ IdleInstance
    /\ opCall = NoCall
    /\ opResult = None
    /\ filterConfig \in FilterConfigs
    /\ filterRequest = NoRequest
    /\ filterResult = None
    /\ hoseFilters = HoseUnset
    /\ userLogRoutes = <<>>
    /\ logPlanPromise = Pending
    /\ logCall = NoLogCall
    /\ dispatches = <<>>
    /\ retentionPolicy = NoPolicy
    /\ cronDispatched = None
    /\ attempts = NoAttempts
    /\ otherInstance = FreshInstance
    /\ chains = NoChains

NextFilter == \E req \in Requests : Evaluate(req)

SpecFilter == InitFilter /\ [][NextFilter]_vars

\* The filters of the routes of a plan: none, one that compiles, one with a
\* key the field table lacks, one with an operator its field's type does not
\* take, and one whose predicate throws for a request with header x.
HeaderFilter == FilterList(<<<<Rule("header:x", "equals", Str(<<"a">>))>>>>)
AsnFilter == FilterList(<<<<Rule("cf.asn", "greaterThan", Whole(1))>>>>)
UnknownKeyFilter == FilterList(<<<<Rule("bogus", "equals", Str(<<"a">>))>>>>)
BadOperatorFilter == FilterList(<<<<Rule("cf.asn", "contains", Str(<<"1">>))>>>>)
ThrowingFilter == FilterList(<<<<Rule("header:x", "contains", JsRegExp)>>>>)

HoseChoices == {HoseUnset, HoseMalformed, HoseJson(<<>>), HoseJson(HeaderFilter.groups),
                HoseJson(UnknownKeyFilter.groups)}

\* The routes a routes module may declare.
RouteChoices ==
    {RouteConfig("t2", HeaderFilter, Columns(<<"receivedAt", "logId">>)),
     RouteConfig("t2", NullFilter, NoColumns),
     RouteConfig("t2", UnknownKeyFilter, NoColumns),
     RouteConfig("t3", AsnFilter, Columns(<<"logId">>)),
     RouteConfig("t3", BadOperatorFilter, NoColumns),
     RouteConfig("t3", ThrowingFilter, NoColumns),
     RouteConfig("", HeaderFilter, NoColumns),
     RouteConfig("t3", NullFilter, Columns(<<"logId", "bogus">>)),
     RouteConfig("t3", NullFilter, Columns(<<"logId", "toString">>))}

\* the requests the worker is given
WorkerRequests == {Req(Str(<<"a">>), JsNull, JsUndefined, JsUndefined),
                   Req(Str(<<"a">>), Str(<<"a">>), Whole(2), Bool(TRUE)),
                   Req(Str(<<"a">>), Str(<<"1">>), Whole(0), JsUndefined)}

\* The worker from its construction on, for every environment and routes
\* module.
InitWorker ==
    /\ IdleInstance
    /\ opCall = NoCall
    /\ opResult = None
    /\ filterConfig = NullFilter
    /\ filterRequest = NoRequest
    /\ filterResult = None
    /\ hoseFilters \in HoseChoices
    /\ userLogRoutes \in UNION {[1..n -> RouteChoices] : n \in 0..MaxUserRoutes}
    /\ logPlanPromise = Pending
    /\ logCall = NoLogCall
    /\ dispatches = <<>>
    /\ retentionPolicy = NoPolicy
    /\ cronDispatched = None
    /\ attempts = NoAttempts
    /\ otherInstance = FreshInstance
    /\ chains = NoChains

NextWorker ==
    \/ WorkerConstructor
    \/ \E req \in WorkerRequests : Log(req)
    \/ \E assembled \in BOOLEAN : SendLogResumes(assembled)

SpecWorker == InitWorker /\ [][NextWorker]_vars

\* The worker and the instance its records go to, for the plans whose routes
\* name distinct tables of the store.
InitRouter ==
    /\ InitMemory
    /\ InitPersisted
    /\ catalog = [t \in Tables |-> NoTable]
    /\ maxBatchSize \in 1..MaxBatchChoice
    /\ instanceKind = "batcher"
    /\ configured = Configured(JsUndefined, Whole(maxBatchSize))
    /\ batchIntervalMs = BATCH_INTERVAL_MS
    /\ opCall = NoCall
    /\ opResult = None
    /\ filterConfig = NullFilter
    /\ filterRequest = NoRequest
    /\ filterResult = None
    /\ hoseFilters \in HoseChoices
    /\ userLogRoutes \in {<<>>} \cup {<<r>> : r \in {c \in RouteChoices : c.tableName \in Tables}}
    /\ logPlanPromise = Pending
    /\ logCall = NoLogCall
    /\ dispatches = <<>>
    /\ retentionPolicy = NoPolicy
    /\ cronDispatched = None
    /\ attempts = NoAttempts
    /\ otherInstance = FreshInstance
    /\ chains = NoChains

NextRouter ==
    \/ WorkerConstructor
    \/ \E req \in WorkerRequests : Log(req)
    \/ \E assembled \in BOOLEAN : SendLogResumes(assembled)
    \/ AddLogArrives

SpecRouter == InitRouter /\ [][NextRouter]_vars

\* what a deployment may set BATCH_INTERVAL_MS and MAX_BATCH_SIZE to
ConfiguredValues ==
    {JsUndefined, Whole(0), Whole(-5), Whole(1), Whole(250), Num(15), Num(5),
     Str(<<"5">>), Str(<<"-", "1">>), Str(<<"0">>), Str(<<>>), Str(<<"a", "b", "c">>),
     Str(<<"1", "2", "a", "b", "c">>), Str(<<" ", "7">>)}

\* The constructor of the instance for every pair of configured values.
InitConstructor ==
    /\ InitMemory
    /\ InitPersisted
    /\ catalog = [t \in Tables |-> NoTable]
    /\ maxBatchSize = 0
    /\ batchIntervalMs = 0
    /\ instanceKind = "batcher"
    /\ configured \in {Configured(i, s) : i \in ConfiguredValues, s \in ConfiguredValues}
    /\ opCall = NoCall
    /\ opResult = None
    /\ filterConfig = NullFilter
    /\ filterRequest = NoRequest
    /\ filterResult = None
    /\ hoseFilters = HoseUnset
    /\ userLogRoutes = <<>>
    /\ logPlanPromise = Pending
    /\ logCall = NoLogCall
    /\ dispatches = <<>>
    /\ retentionPolicy = NoPolicy
    /\ cronDispatched = None
    /\ attempts = NoAttempts
    /\ otherInstance = FreshInstance
    /\ chains = NoChains

NextConstructor == Constructor

SpecConstructor == InitConstructor /\ [][NextConstructor]_vars


\* the cf-ray headers of the requests: none, an empty one, and two texts
Rays == {JsNull, Str(<<>>), Str(<<"a">>), Str(<<"1">>)}

\* The dispatcher choosing an instance, for every cf-ray header and at
\* different times.
InitShard ==
    /\ IdleInstance
    /\ opCall = NoCall
    /\ opResult = None
    /\ filterConfig = NullFilter
    /\ filterRequest = NoRequest
    /\ filterResult = None
    /\ hoseFilters = HoseUnset
    /\ userLogRoutes = <<>>
    /\ logPlanPromise = Pending
    /\ logCall = NoLogCall
    /\ dispatches = <<>>
    /\ retentionPolicy = NoPolicy
    /\ cronDispatched = None
    /\ attempts = NoAttempts
    /\ otherInstance = FreshInstance
    /\ chains = NoChains

NextShard ==
    \/ \E ray \in Rays, fingerprint \in {<<"a">>, <<"1">>} : SendLogTo(ray, fingerprint)
    \/ Tick

SpecShard == InitShard /\ [][NextShard]_vars

\* The records assembled for the clients of every fingerprint.
NextSample ==
    \/ \E fingerprint \in Strings : SendLogTo(JsNull, fingerprint)
    \/ Tick

SpecSample == InitShard /\ [][NextSample]_vars

\* the retention properties a route of the routes module may declare
Policies == {Policy(r, p) : r \in {JsUndefined, Whole(1)},
                            p \in {JsUndefined, Whole(0), Whole(1)}}

\* The cron handler of the worker and the instance pruner_<table>, for every
\* retention policy the route of the table may declare.
InitCron ==
    /\ InitMemory
    /\ InitPersisted
    /\ catalog = [t \in Tables |-> NoTable]
    /\ maxBatchSize = MAX_BATCH_SIZE
    /\ instanceKind = "pruner"
    /\ configured = Configured(JsUndefined, JsUndefined)
    /\ batchIntervalMs = BATCH_INTERVAL_MS
    /\ opCall = NoCall
    /\ opResult = None
    /\ filterConfig = NullFilter
    /\ filterRequest = NoRequest
    /\ filterResult = None
    /\ hoseFilters = HoseUnset
    /\ userLogRoutes = <<>>
    /\ logPlanPromise = Pending
    /\ logCall = NoLogCall
    /\ dispatches = <<>>
    /\ retentionPolicy \in Policies
    /\ cronDispatched = None
    /\ attempts = NoAttempts
    /\ otherInstance = FreshInstance
    /\ chains = NoChains

NextCron ==
    \/ ScheduledFor(Pruned)
    \/ \E t \in Pruned : ChainSetLogPlan(t)
    \/ \E t \in Pruned : ChainRunRetentionCheck(t)
    \/ \E c \in Checks : CheckStep(c)
    \/ SchemaStep
    \/ Tick
    \/ \E t \in Pruned : InsertRow(t)

SpecCron == InitCron /\ [][NextCron]_vars

\* The first cron event of a deployment whose plan has a route for each of
\* the two tables, both with retentionDays and pruningIntervalDays.
InitChains == InitCron /\ Dispatches(retentionPolicy)

FirstScheduled == cronDispatched = None /\ ScheduledFor(Tables)

NextChains ==
    \/ FirstScheduled
    \/ \E t \in Tables : ChainSetLogPlan(t)
    \/ \E t \in Tables : ChainRunRetentionCheck(t)
    \/ \E c \in Checks : CheckStep(c)
    \/ SchemaStep
    \/ Tick
    \/ \E t \in Pruned : InsertRow(t)

SpecChains == InitChains /\ [][NextChains]_vars

\* the routings of a plan with a route for each of the two tables
BothMatches == {{"t1"}, {"t2"}, {"t1", "t2"}}

\* A batcher instance that buffers records for two tables and is given the
\* plan of its own deployment or that of one without the route of t2.
InitTables ==
    /\ InitMemory
    /\ InitPersisted
    /\ catalog = [t \in Tables |-> NoTable]
    /\ maxBatchSize \in 1..MaxBatchChoice
    /\ instanceKind = "batcher"
    /\ IdleWorker

AddLogShared(matched) ==
    /\ nextRec <= MaxShared
    /\ AddLog(matched)

NextTables ==
    \/ \E matched \in BothMatches : AddLogShared(matched)
    \/ \E plan \in {deployed, PartialPlan} : SetLogPlanTo(plan)
    \/ Alarm
    \/ \E f \in Flights : FlushAfterInit(f)
    \/ \E f \in Flights : FlushBatchDone(f)
    \/ SchemaStep

SpecTables == InitTables /\ [][NextTables]_vars

\* The batcher with fair scheduling: the runtime delivers a pending alarm,
\* and an invocation suspended at an await resumes once the store or the
\* schema manager has answered.  Nothing obliges a caller to send another
\* addLog or setLogPlan.
NextRetry ==
    \/ \E matched \in BothMatches : AddLogShared(matched)
    \/ SetLogPlan
    \/ Alarm
    \/ \E f \in Flights : FlushAfterInit(f)
    \/ \E f \in Flights : FlushBatchDone(f)
    \/ SchemaStep

FairScheduling ==
    /\ WF_vars(Alarm)
    /\ WF_vars(\E f \in Flights : FlushAfterInit(f))
    /\ WF_vars(\E f \in Flights : FlushBatchDone(f))
    /\ WF_vars(SchemaStep)

SpecRetry == InitTables /\ [][NextRetry]_vars /\ FairScheduling

\* Two batcher instances, neither with a stored fingerprint, that initialize
\* the schema of the same table against the common store.
Shared == {"t1"}

NextPeers ==
    \/ \E t \in Shared : Initialize(t)
    \/ SchemaStep
    \/ RunOtherInstance

SpecPeers == Init /\ [][NextPeers]_vars

\* One instance whose flushes and retention checks of table t1 share the
\* schema initialization of the table.
NextShare ==
    \/ \E matched \in Matches : AddLogShared(matched)
    \/ SetLogPlan
    \/ Alarm
    \/ \E f \in Flights : FlushAfterInit(f)
    \/ \E f \in Flights : FlushBatchDone(f)
    \/ \E t \in Pruned, retention \in RetentionChoices : RunRetentionCheck(t, 1, retention)
    \/ \E c \in Checks : CheckStep(c)
    \/ SchemaStep

SpecShare == Init /\ [][NextShare]_vars

\* ------------------------------------------------------------ properties
RECURSIVE Flatten(_)
Flatten(ss) == IF ss = <<>> THEN <<>> ELSE Head(ss) \o Flatten(Tail(ss))

\* The rows of table t in the order the store received them.
PersistedRows(t) == Flatten(storeBatches[t])

\* Records are numbered in the order they entered addLog.
InAddLogOrder(s) == \A i, j \in 1..Len(s) : i < j => s[i] < s[j]

InFlight(t) == UNION {Range(f.batch) : f \in {g \in Flights : g.table = t}}

DeadLettered(t) ==
    UNION {Range(deadLetter[i].batch) :
             i \in {k \in 1..Len(deadLetter) : deadLetter[k].tableName = t}}

\* C1: for every table, the rows the store received through successful
\* submissions are in the order their records entered addLog, and the buffer
\* is in that order too (a batch put back is never behind later records).
C1_FifoPerTable ==
    \A t \in Tables : InAddLogOrder(PersistedRows(t)) /\ InAddLogOrder(batches[t])

\* C2: every record addLog accepted for table T in this lifetime is in
\* batches[T], in a claimed in-flight batch of T, in store table T or in a
\* dead-letter entry for T.
C2_NoRecordLost ==
    \A t \in Tables : \A r \in accepted[t] :
        \/ r \in Range(batches[t])
        \/ r \in InFlight(t)
        \/ r \in Range(PersistedRows(t))
        \/ r \in DeadLettered(t)

\* A step in which the store submission of flight f has failed.
SubmissionFailed(f) ==
    /\ f \in Flights /\ f.pc = "batch" /\ f \notin Flights'
    /\ storeBatches' = storeBatches

\* C3 (the step): a failed submission for T increments the failure counter;
\* below MAX_RETRIES the claimed batch is prepended to batches[T] and
\* nothing is dead-lettered; at MAX_RETRIES the batch is appended once to
\* the dead-letter store under the key of T, the counter becomes zero and
\* the batch is not put back.
C3_FailureStep ==
    \A f \in Flights : SubmissionFailed(f) =>
        LET t == f.table
            failures == failureCounts[t] + 1
        IN  IF failures < MAX_RETRIES
            THEN /\ failureCounts'[t] = failures
                 /\ batches'[t] = f.batch \o batches[t]
                 /\ deadLetter' = deadLetter
            ELSE /\ failureCounts'[t] = 0
                 /\ batches'[t] = batches[t]
                 /\ Len(deadLetter') = Len(deadLetter) + 1
                 /\ deadLetter'[Len(deadLetter')].tableName = t
                 /\ deadLetter'[Len(deadLetter')].batch = f.batch

\* C3 (afterwards): a dead-lettered record of T is in exactly one
\* dead-letter entry of T and is in no buffer, claimed batch or store batch
\* of T, and dead-letter entries are never removed or rewritten.
C3_DeadLetterIsFinal ==
    /\ \A i, j \in 1..Len(deadLetter) :
          (i # j /\ deadLetter[i].tableName = deadLetter[j].tableName)
             => Range(deadLetter[i].batch) \cap Range(deadLetter[j].batch) = {}
    /\ \A t \in Tables : \A r \in DeadLettered(t) :
          /\ r \notin Range(batches[t])
          /\ r \notin InFlight(t)
          /\ r \notin Range(PersistedRows(t))

C4_InitFailureStep ==
    /\ \A f \in Flights :
          (f.pc = "init" /\ initPromises[f.table] = "rejected" /\ f \notin Flights')
             => batches'[f.table] = f.batch \o batches[f.table]
    /\ \A t \in Tables :
          (initPromises[t] = "rejected"
             /\ \E f \in Flights' \ Flights : f.table = t /\ f.pc = "init")
             => initPromises'[t] = "pending"

C4_SchemaFailurePutsBack == [][C4_InitFailureStep]_vars

\* A step in which the store has accepted the submission of flight f.
SubmissionAccepted(f) ==
    /\ f \in Flights /\ f.pc = "batch" /\ f \notin Flights'
    /\ storeBatches' # storeBatches

\* A step in which addLog pushes a record that makes batches[t] reach
\* exactly maxBatchSize records.
AddLogReaches(t) ==
    /\ nextRec' = nextRec + 1
    /\ nextRec \in accepted'[t]
    /\ Len(batches[t]) + 1 = maxBatchSize

\* C5 (the start): the addLog call that makes batches[T] reach N records
\* starts, in the same step, a flush of T that claims exactly those N
\* records in order and leaves batches[T] empty.
C5_FlushStartsAtOnce ==
    \A t \in Tables : AddLogReaches(t) =>
        /\ batches'[t] = <<>>
        /\ Len(flights') = Len(flights) + 1
        /\ flights'[Len(flights')].table = t
        /\ flights'[Len(flights')].origin = "addLog"
        /\ flights'[Len(flights')].batch = Append(batches[t], nextRec)
        /\ Len(flights'[Len(flights')].batch) = maxBatchSize

\* A flush that addLog started for a buffer that had just reached N records.
SizeFlush(f) == f.origin = "addLog" /\ Len(f.batch) = maxBatchSize

\* C5 as stated: such a flush starts at once, and when the store accepts
\* its write the store receives one batch of exactly those N records and
\* batches[T] is empty at the completion of the flush.
C5_BufferEmptyAtCompletion ==
    [][/\ C5_FlushStartsAtOnce
       /\ \A f \in Flights : (SizeFlush(f) /\ SubmissionAccepted(f)) =>
             /\ storeBatches'[f.table] = Append(storeBatches[f.table], f.batch)
             /\ batches'[f.table] = <<>>]_vars

\* C5 amended: such a flush starts at once and empties batches[T] when it
\* claims the N records; when the store accepts its write the store receives
\* one batch of exactly those N records, and the completion of the flush
\* leaves batches[T] as it is, holding none of the N records (only what
\* addLog and failed flushes have placed there since the claim).
C5_SizeFlush ==
    [][/\ C5_FlushStartsAtOnce
       /\ \A f \in Flights : (SizeFlush(f) /\ SubmissionAccepted(f)) =>
             /\ storeBatches'[f.table] = Append(storeBatches[f.table], f.batch)
             /\ batches'[f.table] = batches[f.table]
             /\ Range(batches'[f.table]) \cap Range(f.batch) = {}]_vars

\* C5 witness: with N = 2 and no plan (so every flush was started by
\* addLog), the store holds the batch <<1, 2>> and record 3 is buffered.
C5_Witness ==
    /\ maxBatchSize = 2
    /\ logPlan = NoPlan
    /\ storeBatches["t1"] = << <<1, 2>> >>
    /\ batches["t1"] = <<3>>

\* C6: whenever the alarm fires on an instance that the dispatcher has sent
\* records to, the plan is set and the alarm claims every non-empty buffer
\* for submission to the store.
C6_AlarmFlushesEveryBuffer ==
    [][(instanceKind = "batcher" /\ alarmTime # NoAlarm /\ alarmTime' = NoAlarm) =>
          /\ logPlan # NoPlan
          /\ \A t \in Tables : batches[t] # <<>> =>
                /\ batches'[t] = <<>>
                /\ \E i \in (Len(flights) + 1)..Len(flights') :
                      flights'[i].table = t /\ flights'[i].batch = batches[t]]_vars

\* The version of the route that the initialize call or run of t works with.
RouteVersion(t) == IF initRun[t].pc = "idle" THEN deployed ELSE initRun[t].ver

\* A step of initialize(route) for table t: a call, or a step of its run.
InitializeActs(t) == initRun'[t] # initRun[t] \/ initPromises'[t] # initPromises[t]

\* C7: while the stored fingerprint of a table equals the route fingerprint,
\* no step of initialize(route) issues a DDL statement or changes the
\* catalog or the stored fingerprint, and the run that has read the equal
\* fingerprint from storage completes at once (unless the instance is
\* discarded first).
C7_Idempotent ==
    [][\A t \in Tables :
          (schemaHashStored[t] = SchemaHash(RouteVersion(t)) /\ InitializeActs(t)) =>
             /\ ddl' = {}
             /\ catalog' = catalog
             /\ indexes' = indexes
             /\ schemaHashStored' = schemaHashStored
             /\ (initRun[t].pc = "get" /\ initPromises'[t] # "absent") =>
                   initPromises'[t] = "fulfilled"]_vars

\* C7 witness: after a migration and a restart, initialize runs again for
\* a table whose stored fingerprint equals the route fingerprint.
C7_Witness ==
    /\ initRun["t1"].pc = "get"
    /\ schemaHashStored["t1"] = SchemaHash(initRun["t1"].ver)
    /\ Len(migrationMetrics) > 0

\* A step in which the run of initialize(route) for t ends.
RunEnds(t) == initRun[t].pc \notin {"idle"} /\ initRun'[t].pc = "idle"
              /\ initPromises'[t] \in {"fulfilled", "rejected"}

\* The fingerprint the run of t has read, or is about to read, from storage.
StoredRead(t) == IF initRun[t].pc = "get" THEN schemaHashStored[t] ELSE initRun[t].stored

ExpectedMetric(t) ==
    [tableName |-> t,
     migrationType |-> IF StoredRead(t) = NoHash THEN "create_table" ELSE "alter_table",
     schemaHash |-> SchemaHash(initRun[t].ver)]

\* Metrics are emitted only by the step that ends a run.
C8_OnlyAtEnd == (\A t \in Tables : ~RunEnds(t)) => migrationMetrics' = migrationMetrics

\* C8 as stated: a run of initialize(route) that found the stored
\* fingerprint different from the route fingerprint has, when it ends,
\* emitted exactly one migration metric of the right type and persisted the
\* route fingerprint; a run that found them equal has emitted none.
C8_MetricWheneverDifferent ==
    [][/\ C8_OnlyAtEnd
       /\ \A t \in Tables : RunEnds(t) =>
             IF StoredRead(t) # SchemaHash(initRun[t].ver)
             THEN /\ migrationMetrics' = Append(migrationMetrics, ExpectedMetric(t))
                  /\ schemaHashStored'[t] = SchemaHash(initRun[t].ver)
             ELSE migrationMetrics' = migrationMetrics]_vars

\* C8 amended: a run that found the fingerprints different and completes
\* without error has emitted exactly one migration metric of the right type
\* and persisted the route fingerprint; a run that fails has emitted none
\* and left the stored fingerprint as it was; a run that found the
\* fingerprints equal has emitted none.
C8_MetricOnMigration ==
    [][/\ C8_OnlyAtEnd
       /\ \A t \in Tables : RunEnds(t) =>
             IF StoredRead(t) # SchemaHash(initRun[t].ver) /\ initPromises'[t] = "fulfilled"
             THEN /\ migrationMetrics' = Append(migrationMetrics, ExpectedMetric(t))
                  /\ schemaHashStored'[t] = SchemaHash(initRun[t].ver)
             ELSE /\ migrationMetrics' = migrationMetrics
                  /\ schemaHashStored' = schemaHashStored]_vars

\* C8 witness: a create_table metric and, after a redeployment, an
\* alter_table metric for the same table.
C8_Witness ==
    /\ Len(migrationMetrics) = 2
    /\ migrationMetrics[1].tableName = "t1"
    /\ migrationMetrics[1].migrationType = "create_table"
    /\ migrationMetrics[2].tableName = "t1"
    /\ migrationMetrics[2].migrationType = "alter_table"

\* C9: no step removes a table or a column of an existing table, and when
\* applySchema has brought an existing table up to date (it goes on to the
\* indexes) the columns of the table are the previous columns united with
\* the columns of the schema.
C9_AdditiveOnly ==
    [][\A t \in Tables :
          /\ catalog[t].exists =>
                (catalog'[t].exists /\ ColumnsOf(t) \subseteq catalog'[t].cols)
          /\ (initRun[t].pc \in {"tableInfo", "alter"} /\ initRun'[t].pc = "indexList") =>
                catalog'[t].cols = ColumnsOf(t) \cup Range(Schema(initRun[t].ver))]_vars

\* C9 witness: a table that had the columns logId and legacy has been
\* migrated to the first schema and kept both.
C9_Witness ==
    /\ catalog["t1"].exists
    /\ catalog["t1"].cols = {"logId", "legacy"} \cup Range(Schema(1))
    /\ schemaHashStored["t1"] = SchemaHash(1)

\* The suspended invocation c takes the step and goes on as d.
CheckGoesOn(c, d) == checks' = WithCheck(c, d)

\* The suspended invocation c takes the step and ends, without a prune.
CheckReturns(c) ==
    /\ checks' = WithoutCheck(c)
    /\ rows' = rows
    /\ lastPruned' = lastPruned
    /\ pruningMetrics' = pruningMetrics

\* The suspended invocation c takes the step: one copy of it leaves the bag.
CheckMoves(c) == c \notin BagToSet(checks') \/ checks'[c] < checks[c]

\* Some invocation takes this step: checks changes and none was added.
CheckActs == checks' # checks /\ BagCardinality(checks') <= BagCardinality(checks)

\* The pruner runs only for invocations that found the interval elapsed.
C10_PrunedOnlyWhenElapsed ==
    \A c \in Checks :
        c.pc \in {"delete", "analyze", "put"} => c.now - c.last > c.days * 86400000

\* A prune that succeeds persists the now its invocation read.
C10_PersistsNowRead ==
    lastPruned' # lastPruned =>
        \E c \in Checks : /\ c.pc = "put"
                          /\ checks' = WithoutCheck(c)
                          /\ lastPruned' = [lastPruned EXCEPT ![c.table] = c.now]

\* Rows are deleted only by the pruner of an invocation.
C10_DeletesOnlyInPrune ==
    rows' # rows /\ (\A t \in Tables : rows'[t] \subseteq rows[t]) =>
        \E c \in Checks : c.pc = "delete" /\ CheckMoves(c)

\* C10 as stated: an invocation that reads now and lastPruned with
\* now - lastPruned > pruningIntervalDays * 86,400,000 invokes the pruner
\* (after initialize), any other returns without deleting a row or
\* changing lastPruned, and a prune that succeeds persists the now that the
\* invocation read.
C10_PrunesIffElapsed ==
    /\ []C10_PrunedOnlyWhenElapsed
    /\ [][/\ C10_PersistsNowRead
          /\ C10_DeletesOnlyInPrune
          /\ CheckActs =>
               \E c \in Checks :
                  \/ /\ c.pc = "get"
                     /\ IF now - lastPruned[c.table] > c.days * 86400000
                        THEN CheckGoesOn(c, [c EXCEPT !.now = now,
                                                      !.last = lastPruned[c.table],
                                                      !.pc = "init"])
                        ELSE CheckReturns(c)
                  \/ /\ c.pc = "init"
                     /\ CheckGoesOn(c, [c EXCEPT !.pc = "delete",
                                                 !.cutoff = now - c.retention * MS_PER_DAY])
                  \/ /\ c.pc \in {"delete", "analyze", "put"}
                     /\ CheckMoves(c)]_vars

\* C10 amended: the interval is (pruningIntervalDays || 1) days, and an
\* invocation that found it elapsed invokes the pruner only when the
\* initialize(route) it awaits is fulfilled; when that is rejected it ends
\* without deleting a row, changing lastPruned or emitting a metric.
C10_PrunesWhenElapsedAndInitialized ==
    /\ []C10_PrunedOnlyWhenElapsed
    /\ [][/\ C10_PersistsNowRead
          /\ C10_DeletesOnlyInPrune
          /\ CheckActs =>
               \E c \in Checks :
                  \/ /\ c.pc = "get"
                     /\ IF now - lastPruned[c.table] >
                              (IF c.days = 0 THEN 1 ELSE c.days) * 86400000
                        THEN CheckGoesOn(c, [c EXCEPT !.now = now,
                                                      !.last = lastPruned[c.table],
                                                      !.pc = "init"])
                        ELSE CheckReturns(c)
                  \/ /\ c.pc = "init"
                     /\ IF initPromises[c.table] = "fulfilled"
                        THEN CheckGoesOn(c, [c EXCEPT !.pc = "delete",
                                                      !.cutoff = now - c.retention * MS_PER_DAY])
                        ELSE CheckReturns(c)
                  \/ /\ c.pc \in {"delete", "analyze", "put"}
                     /\ CheckMoves(c)]_vars

\* C10 witness: a prune at the epoch has persisted lastPruned, and an
\* invocation one day and a millisecond later has found the interval
\* elapsed and invoked the pruner again.
C10_Witness ==
    \E c \in Checks :
        /\ c.pc = "delete"
        /\ c.last = Epoch
        /\ c.now = Epoch + MS_PER_DAY + 1
        /\ lastPruned[c.table] = Epoch

\* A step in which the suspended invocation c ends (no other takes its place).
CheckEnds(c) == CheckMoves(c) /\ BagCardinality(checks') < BagCardinality(checks)

\* The pruner runs only after initialize(route) was fulfilled, and the
\* fulfilled promise stays memoized for the next invocation.
C11_PrunerAfterInitialize ==
    \A c \in Checks :
        c.pc \in {"delete", "analyze", "put"} => initPromises[c.table] = "fulfilled"

\* A step that ends an invocation inside the try block either is the
\* successful storage put or is a failure, which leaves lastPruned as it
\* was, emits the failure metric and, when no other invocation has pruned
\* meanwhile, leaves the interval elapsed for the next invocation.
C11_FailureStep ==
    \A c \in Checks : (c.pc \in {"delete", "analyze", "put"} /\ CheckEnds(c)) =>
        \/ /\ c.pc = "put"
           /\ lastPruned' = [lastPruned EXCEPT ![c.table] = c.now]
           /\ PruningMetric(c.table, "success", Undefined) \in pruningMetrics'
        \/ /\ lastPruned' = lastPruned
           /\ PruningMetric(c.table, "failure", 0) \in pruningMetrics'
           /\ rows' = rows
           /\ lastPruned[c.table] = c.last =>
                 now' - lastPruned'[c.table] >
                    (IF c.days = 0 THEN 1 ELSE c.days) * 86400000

\* C11: when the pruner fails inside runRetentionCheck, lastPruned[table]
\* is left unchanged and a dataPruning metric with outcome failure is
\* emitted, so the next invocation finds the interval still elapsed and,
\* initialize(route) being fulfilled, invokes the pruner again.
C11_FailureLeavesLastPruned ==
    /\ []C11_PrunerAfterInitialize
    /\ [][C11_FailureStep]_vars

\* C11 witness: a prune has failed, lastPruned is still absent, and a later
\* invocation, alone, has invoked the pruner again.
C11_Witness ==
    /\ PruningMetric("t1", "failure", 0) \in pruningMetrics
    /\ lastPruned["t1"] = 0
    /\ BagCardinality(checks) = 1
    /\ \E c \in Checks : c.pc = "delete" /\ c.now = Epoch + MS_PER_DAY

\* A step in which the DELETE of the suspended invocation c has succeeded.
DeleteSucceeds(c) == c.pc = "delete" /\ CheckMoves(c) /\ ~CheckEnds(c)

\* C12: pruneTable(store, t, R) takes as cutoff the time of its call minus
\* R * 86,400,000 ms, and right after its DELETE has succeeded no row of t
\* has receivedAt earlier than the cutoff and every row of t that had
\* receivedAt at or after the cutoff is still present.
C12_RetentionBound ==
    [][\A c \in Checks :
          /\ (c.pc = "init" /\ CheckMoves(c) /\ ~CheckEnds(c)) =>
                \E d \in BagToSet(checks') :
                    /\ d = [c EXCEPT !.pc = "delete", !.cutoff = d.cutoff]
                    /\ d.cutoff = now - c.retention * 86400000
          /\ DeleteSucceeds(c) =>
                /\ \A r \in rows'[c.table] : r >= c.cutoff
                /\ rows'[c.table] = {r \in rows[c.table] : r >= c.cutoff}]_vars

\* C12 witness: a prune with the cutoff one millisecond after the epoch has
\* deleted the row received at the epoch and kept the row received at the
\* cutoff.
C12_Witness ==
    /\ rows["t1"] = {Epoch + 1}
    /\ \E c \in Checks : c.pc = "analyze" /\ c.cutoff = Epoch + 1 /\ c.deleted = 1

\* The plan the worker compiled.
Plan == logPlanPromise.plan

\* Route t of the plan returns true for the request.
RouteMatches(t, req) ==
    \E i \in 1..Len(Plan) : Plan[i].tableName = t /\ Predicate(Plan[i].filter, req) = True

\* The record assembled for the request of the latest log call was pushed on
\* the buffer of table t.
Enqueued(t) == logCall.rec # 0 /\ logCall.rec \in accepted[t]

\* The addLog call of the latest log call has reached the instance.
Delivered == logCall.pc = "sent" /\ logCall.rec < nextRec

\* The latest log call will do nothing more.
Ended == logCall.pc = "done" \/ Delivered

Pushes(t) ==
    /\ accepted'[t] = accepted[t] \cup {logCall.rec}
    /\ \/ batches'[t] = Append(batches[t], logCall.rec)
       \/ /\ batches'[t] = <<>>
          /\ \E f \in Range(flights') : f.table = t /\ f.batch = Append(batches[t], logCall.rec)

C13_Delivered ==
    /\ Delivered => \A t \in Tables : Enqueued(t) <=> RouteMatches(t, logCall.request)
    /\ ~Delivered => \A t \in Tables : ~Enqueued(t)
    /\ (logCall.pc # "none" /\ \A t \in Tables : ~RouteMatches(t, logCall.request))
          => logCall.pc = "done"

C13_PushStep ==
    \A t \in Tables :
        accepted'[t] # accepted[t] =>
            /\ logCall.pc = "sent"
            /\ RouteMatches(t, logCall.request)
            /\ Pushes(t)

Declared == Routes(hoseFilters, userLogRoutes)

\* A filter configuration with a static key the field table lacks or an
\* operator that the type of its field does not take.
FailsToCompile(config) ==
    \E i \in 1..Len(config.groups) : \E j \in 1..Len(config.groups[i]) :
        LET rule == config.groups[i][j]
            type == IF rule.key \in HeaderKeys THEN "string" ELSE FieldType(rule.key)
        IN  \/ type = "undefined"
            \/ rule.operator \notin VALID_OPERATORS_BY_TYPE(type)

\* what the predicate compiled from a configuration returns for a request
OwnResult(config, req) ==
    IF config.kind = "null" \/ config.groups = <<>> THEN True
    ELSE Some(config.groups, req)

\* C14: a route whose filter fails to compile gets a predicate that denies
\* every request; the plan is compiled all the same (it is rejected only for
\* a malformed firehose filter text or a route the map callback rejects), and
\* every other route has the predicate compiled from its own filter.
C14_FilterFailureDeniesRoute ==
    /\ logPlanPromise.state = "rejected" =>
          \/ hoseFilters = HoseMalformed
          \/ \E i \in 1..Len(Declared) : RouteThrows(Declared[i])
    /\ logPlanPromise.state = "fulfilled" =>
          /\ Len(Plan) = Len(Declared)
          /\ \A i \in 1..Len(Plan) : \A req \in Requests :
                Predicate(Plan[i].filter, req) =
                    IF FailsToCompile(Declared[i].filter) THEN False
                    ELSE OwnResult(Declared[i].filter, req)

\* a plan of three routes, the second with a filter that failed to compile,
\* and a request the first and the third route matched
C14_Witness ==
    /\ logPlanPromise.state = "fulfilled"
    /\ Len(Plan) = 3
    /\ FailsToCompile(Declared[2].filter)
    /\ Plan[3].filter.kind = "groups"
    /\ logCall.matched = <<"t1", "t3">>

\* C15: whatever the request and whatever fails (the compilation of the plan,
\* a predicate that throws, the assembly of the record, the dispatch), the
\* promise log(request, data) returned to its caller is never rejected.
C15_LogNeverRejects == logCall.outcome # "rejected"

\* a rule holds for a request: its operator, applied to what its accessor
\* reads in the request and to its literal, returns true
RuleHolds(rule, req) ==
    OPERATORS(rule.operator, Accessor(rule.key, req), rule.value) = True

\* the OR over the groups of the AND over the rules of a group
OrOfAnds(groups, req) ==
    \E i \in 1..Len(groups) : \A j \in 1..Len(groups[i]) : RuleHolds(groups[i][j], req)

\* C16: for a filter configuration that compiles, the predicate returns for a
\* request the OR over the groups of the AND over the rules of each group
\* (unless the evaluation of a rule raised), and a null or empty list of
\* groups gives a predicate that is true for every request.
C16_OrOfAnds ==
    (filterResult # None /\ ~FailsToCompile(filterConfig)) =>
        IF filterConfig.kind = "null" \/ filterConfig.groups = <<>>
        THEN filterResult = True
        ELSE filterResult # Throws =>
                (filterResult = True <=> OrOfAnds(filterConfig.groups, filterRequest))

\* two groups of two rules each, the first one not holding and the second
\* one holding for the request
C16_Witness ==
    /\ filterResult = True
    /\ Len(filterConfig.groups) = 2
    /\ Len(filterConfig.groups[1]) = 2
    /\ Len(filterConfig.groups[2]) = 2
    /\ \E j \in 1..2 : ~RuleHolds(filterConfig.groups[1][j], filterRequest)

\* the subject of the operator call is null or absent
NullSubject == opCall.subject \in {JsNull, JsUndefined}

\* the subject is of a type the operator does not compare
NonMatchingType ==
    \/ opCall.op \in {"contains", "startsWith", "endsWith"} /\ opCall.subject.t # "string"
    \/ opCall.op \in {"greaterThan", "lessThan"} /\ opCall.subject.t # "number"
    \/ opCall.op = "equals" /\ opCall.subject.t # opCall.value.t

\* C17: for every operator and literal, a null or absent subject gives false
\* for exists, true for doesNotExist and false for every other operator, and
\* a subject of a non-matching type gives false and never an exception.
C17_NullAndMismatch ==
    opResult # None =>
        /\ NullSubject =>
              opResult = IF opCall.op = "doesNotExist" THEN True ELSE False
        /\ (~NullSubject /\ NonMatchingType) => opResult = False

\* the column names of a route schema, in order
SchemaNames(schema) == [i \in 1..Len(schema) |-> schema[i].name]

\* C18: a compiled plan starts with the firehose route, whose schema is the
\* whole master schema, and goes on with the user routes in the order they
\* were declared, so it has one route more than the routes module; with no
\* user route and no firehose filter it is one route whose predicate is true
\* for every request.
C18_FirehoseFirst ==
    logPlanPromise.state = "fulfilled" =>
        /\ Len(Plan) = 1 + Len(userLogRoutes)
        /\ Plan[1].tableName = FirehoseTable
        /\ SchemaNames(Plan[1].schema) = MasterSchema
        /\ \A i \in 1..Len(MasterSchema) : Plan[1].schema[i].def.kind = "column"
        /\ \A i \in 1..Len(userLogRoutes) :
              /\ Plan[i + 1].tableName = userLogRoutes[i].tableName
              /\ userLogRoutes[i].columns.kind = "array" =>
                    Range(SchemaNames(Plan[i + 1].schema)) = Range(userLogRoutes[i].columns.cols)
        /\ (userLogRoutes = <<>> /\ hoseFilters = HoseUnset) =>
              /\ Len(Plan) = 1
              /\ \A req \in Requests : Predicate(Plan[1].filter, req) = True

\* a plan compiled from two user routes declared for different tables
C18_Witness ==
    /\ logPlanPromise.state = "fulfilled"
    /\ Len(Plan) = 3
    /\ Plan[2].tableName = "t2"
    /\ Plan[3].tableName = "t3"
    /\ Plan[2].schema # Plan[3].schema

\* a route of the configuration names a column the master schema lacks
NamesUnknownColumn(route) ==
    /\ route.columns.kind = "array"
    /\ \E i \in 1..Len(route.columns.cols) :
          route.columns.cols[i] \notin Range(MasterSchema)

\* C19: the compilation of the plan fails whenever a route has no tableName
\* or names a column that is not in the master schema, and in a plan that
\* compiled every column of every route schema is a column of the master
\* schema with the declaration the master schema gives it.
C19_InvalidRouteFailsPlan ==
    /\ (/\ logPlanPromise # Pending
        /\ \E i \in 1..Len(Declared) :
              Declared[i].tableName = "" \/ NamesUnknownColumn(Declared[i]))
          => logPlanPromise.state = "rejected"
    /\ logPlanPromise.state = "fulfilled" =>
          \A i \in 1..Len(Plan) : \A j \in 1..Len(Plan[i].schema) :
              \E k \in 1..Len(TableSchema) : Plan[i].schema[j] = TableSchema[k]

\* The setting the instance has to use for a configured value, in tenths:
\* the value when it is a positive number (given as a number or as the text
\* of one), the default otherwise.
SettingFor(v, fallback) ==
    IF ToNumber(v) # JsNaN /\ ToNumber(v).n > 0 THEN ToNumber(v).n
    ELSE 10 * fallback

\* C20: for every configured BATCH_INTERVAL_MS and MAX_BATCH_SIZE, the
\* setting the constructed instance uses is a positive number: the configured
\* value when that is a positive number, and the default (10000 and 200) when
\* it is missing, zero, negative or not a number.
C20_DefensiveSettings ==
    maxBatchSize # 0 =>
        /\ batchIntervalMs > 0
        /\ maxBatchSize > 0
        /\ 10 * batchIntervalMs = SettingFor(configured.BATCH_INTERVAL_MS, BATCH_INTERVAL_MS)
        /\ 10 * maxBatchSize = SettingFor(configured.MAX_BATCH_SIZE, MAX_BATCH_SIZE)

\* The instance name sendLog derives from a shard key.
NameFor(key) == <<"b", "a", "t", "c", "h", "e", "r", "_">> \o key

HasRay(d) == d.ray # JsNull /\ d.ray.s # <<>>

IsWhole(v) == v.t = "number" /\ v.n % 10 = 0

\* the value of the last one or two characters of a text of digits
LastDigits(text, k) ==
    IF k = 2 /\ Len(text) > 1
    THEN 10 * DigitValue(text[Len(text) - 1]) + DigitValue(text[Len(text)])
    ELSE DigitValue(text[Len(text)])

\* C22: in every record sample10 is an integer in 0..9 and sample100 an
\* integer in 0..99, they are the last digit and the last two digits of the
\* decimal rendering of crc32(connectionHash), and two records with equal
\* connectionHash have equal buckets.
C22_SampleBuckets ==
    \A i, j \in 1..Len(dispatches) :
        LET d == dispatches[i].logData
            e == dispatches[j].logData
            text == WordToString(Crc32(d.connectionHash))
        IN  /\ IsWhole(d.sample10) /\ d.sample10.n \div 10 \in 0..9
            /\ IsWhole(d.sample100) /\ d.sample100.n \div 10 \in 0..99
            /\ d.sample10.n \div 10 = LastDigits(text, 1)
            /\ d.sample100.n \div 10 = LastDigits(text, 2)
            /\ d.connectionHash = e.connectionHash =>
                  d.sample10 = e.sample10 /\ d.sample100 = e.sample100

\* C22 witness: two records of the same connection, assembled at different
\* times, and a record of another connection in other buckets.
C22_Witness ==
    /\ Len(dispatches) = 2
    /\ dispatches[1].logData.connectionHash = dispatches[2].logData.connectionHash
    /\ dispatches[1].time # dispatches[2].time
    /\ dispatches[1].logData.logId # dispatches[2].logData.logId
    /\ dispatches[1].logData.sample100.n > 90

\* A step in which the invocation f of _writeBatchToD1 ends by raising: the
\* awaited initialize(route) was rejected.
FlushRaises(f) ==
    /\ f \in Flights /\ f.pc = "init" /\ f \notin Flights'
    /\ initPromises[f.table] = "rejected"

\* A step of the destructor that starts at least one flush.
DestructorStarts ==
    \E i \in (Len(flights) + 1)..Len(flights') : flights'[i].origin = "destructor"

\* C23 (the start): the shutdown hook starts a flush for every non-empty
\* buffer whose route is found in the plan.
C23_DrainStep ==
    DestructorStarts =>
        \A t \in Tables : (batches[t] # <<>> /\ logPlan # NoPlan) =>
            /\ batches'[t] = <<>>
            /\ \E i \in (Len(flights) + 1)..Len(flights') :
                  /\ flights'[i].table = t
                  /\ flights'[i].batch = batches[t]
                  /\ flights'[i].origin = "destructor"

\* C23: the shutdown hook starts a flush for every non-empty buffer whose
\* route is found in the plan, and none of the flushes it awaits raises,
\* whatever store-write or schema-initialization failures occur.
C23_DestructorNeverRaises ==
    [][/\ C23_DrainStep
       /\ \A f \in Flights : f.origin = "destructor" => ~FlushRaises(f)]_vars

\* the route declares retentionDays and omits pruningIntervalDays
OmitsInterval(route) ==
    route.retentionDays.t = "number" /\ route.retentionDays.n > 0
    /\ route.pruningIntervalDays = JsUndefined

\* C24: once the cron handler has run, a route that declares retentionDays
\* and omits pruningIntervalDays has had its retention check dispatched, and
\* every retention check of its table works with an interval of one day.
C24_IntervalDefaultsToOne ==
    (cronDispatched # None /\ OmitsInterval(retentionPolicy)) =>
        /\ cronDispatched = "dispatched"
        /\ \A c \in Checks : IntervalMs(c.days) = MS_PER_DAY

\* A step in which addLog accepts a record for table t.
AddLogFor(t) == nextRec' = nextRec + 1 /\ nextRec \in accepted'[t]

\* The invocation f is suspended after the step as well, with the batch it
\* claimed (its position may have advanced).
StillInFlight(f) ==
    \E g \in Flights' : g.table = f.table /\ g.batch = f.batch /\ g.origin = f.origin

\* s is the end of r
IsSuffix(s, r) == Len(s) <= Len(r) /\ SubSeq(r, Len(r) - Len(s) + 1, Len(r)) = s

\* C25 (the state): a claimed batch shares no record with the buffer of its
\* table.
C25_ClaimedApart ==
    \A f \in Flights : Range(f.batch) \cap Range(batches[f.table]) = {}

\* C25 (the step): while a flush of T is between its claim and its
\* completion, an addLog for T leaves the claimed batch as it is and puts
\* the record at the end of the fresh buffer (which a size-based flush may
\* claim in turn); the store receives the claimed batch with the contents it
\* had when claimed; and the step that completes the flush keeps every
\* record that was added to the buffer meanwhile.
C25_ClaimStep ==
    \A f \in Flights :
        /\ AddLogFor(f.table) =>
              /\ StillInFlight(f)
              /\ nextRec \notin Range(f.batch)
              /\ \/ batches'[f.table] = Append(batches[f.table], nextRec)
                 \/ /\ batches'[f.table] = <<>>
                    /\ Len(flights') = Len(flights) + 1
                    /\ flights'[Len(flights')].table = f.table
                    /\ flights'[Len(flights')].batch = Append(batches[f.table], nextRec)
        /\ (~StillInFlight(f) /\ storeBatches' # storeBatches) =>
              storeBatches' = [storeBatches EXCEPT ![f.table] = Append(@, f.batch)]
        /\ ~StillInFlight(f) => IsSuffix(batches[f.table], batches'[f.table])

AlarmFires == alarmTime # NoAlarm /\ alarmTime' = NoAlarm

\* the step starts a flush of table t that claims its buffer
ClaimsBuffer(t) ==
    /\ batches'[t] = <<>>
    /\ \E i \in (Len(flights) + 1)..Len(flights') :
          flights'[i].table = t /\ flights'[i].batch = batches[t]

\* C26 (the step): an alarm without a plan changes no buffer and starts no
\* flush; an alarm with a plan leaves a non-empty buffer whose table has no
\* route in the plan as it is, and claims every other non-empty buffer.
C26_AlarmStep ==
    AlarmFires =>
        IF logPlan = NoPlan
        THEN batches' = batches /\ flights' = flights
        ELSE \A t \in Tables : batches[t] # <<>> =>
                IF t \in PlanTables(logPlan)
                THEN ClaimsBuffer(t)
                ELSE /\ batches'[t] = batches[t]
                     /\ \A i \in (Len(flights) + 1)..Len(flights') : flights'[i].table # t

\* C26: what the alarm leaves alone.
C26_AlarmRetainsUnroutedBuffers == [][C26_AlarmStep]_vars

\* C26 witness: the alarm has fired with a plan that has no route for t2;
\* the buffer of t2 is as it was and the buffer of t1 is being flushed.
C26_Witness ==
    /\ alarmTime = NoAlarm
    /\ logPlan = PartialPlan
    /\ batches["t2"] # <<>>
    /\ batches["t1"] = <<>>
    /\ \E f \in Flights : f.table = "t1" /\ f.origin = "alarm"

\* A step in which a call of addLog completes.
AddLogCompletes == nextRec' = nextRec + 1

\* C27: every addLog call that completes leaves the one alarm of the
\* instance pending at the time of the call plus BATCH_INTERVAL_MS, whether
\* an alarm was pending before (it is re-timed) or not, and whether or not
\* the call started a size-based flush.
C27_AddLogArmsAlarm ==
    [][AddLogCompletes =>
          /\ alarmTime' # NoAlarm
          /\ alarmTime' = now + BATCH_INTERVAL_MS]_vars

\* C27 witness: a second addLog, one millisecond after the epoch and with
\* the alarm of the first still pending, has re-timed the alarm; both calls
\* started a size-based flush.
C27_Witness ==
    /\ nextRec = 3
    /\ maxBatchSize = 1
    /\ now = Epoch + 1
    /\ alarmTime = Epoch + 1 + BATCH_INTERVAL_MS
    /\ \E f \in Flights : f.origin = "addLog"

\* C28: a batch put back after a failed submission is eventually submitted
\* again, driven by the alarm, also when no further addLog arrives: under
\* fair scheduling the buffer of a table whose failure count is between 1
\* and MAX_RETRIES - 1 and whose route the plan resolves does not stay
\* non-empty forever.
AwaitsRetry(t) ==
    /\ batches[t] # <<>>
    /\ failureCounts[t] \in 1..(MAX_RETRIES - 1)
    /\ t \in PlanTables(logPlan)

C28_PutBackIsRetried == \A t \in Tables : AwaitsRetry(t) ~> (batches[t] = <<>>)

\* C29: a store-write failure, a schema-initialization failure or a
\* dead-letter emission for table T leaves the buffer and the failure count
\* of every other table unchanged and cancels none of their flushes, which
\* still run to completion.
FailsFor(t) ==
    \E f \in Flights : /\ f.table = t
                       /\ flights' = WithoutFlight(f)
                       /\ storeBatches' = storeBatches

C29_FailureStep ==
    \A t \in Tables :
        FailsFor(t) =>
            \A u \in Tables \ {t} :
                /\ batches'[u] = batches[u]
                /\ failureCounts'[u] = failureCounts[u]
                /\ \A g \in Flights : g.table = u => g \in Range(flights')

FlushPending(t) == \E f \in Flights : f.table = t

C29_FailureIsIsolated ==
    /\ [][C29_FailureStep]_vars
    /\ \A t \in Tables : FlushPending(t) ~> ~FlushPending(t)

\* Table t1 gave up a batch to the dead-letter store after failures of its
\* own while a flush of t2 reached the store and t2 counts no failure.
C29_Witness ==
    /\ \E i \in 1..Len(deadLetter) : deadLetter[i].tableName = "t1"
    /\ storeBatches["t2"] # <<>>
    /\ failureCounts["t2"] = 0
    /\ batches["t2"] = <<>>

\* C30: every record written to the dead-letter store was itself part of
\* MAX_RETRIES rejected submissions to its table.
C30_DeadLetteredAfterOwnRetries ==
    \A i \in 1..Len(deadLetter) :
        \A r \in Range(deadLetter[i].batch) :
            attempts[deadLetter[i].tableName][r] >= MAX_RETRIES

\* C31: after initialize(route) succeeded for a route, the store holds, for
\* every column the route's schema flags as indexed, an index over that
\* column on the route's own table.
InitializedAt(t, v) ==
    /\ initPromises[t] = "fulfilled"
    /\ schemaHashStored[t] = SchemaHash(v)

C31_IndexesOnOwnTable ==
    \A t \in Tables : \A v \in Versions :
        InitializedAt(t, v) => \A n \in SchemaIndexes(v) : indexes[n] = t

\* C32: when two instances without a stored fingerprint initialize the same
\* table in any interleaving, both initializations complete without error:
\* in particular no initialization is rejected at its CREATE TABLE because
\* the table was created after the instance had seen it absent.
CreateTableOnExisting(t) ==
    /\ initRun[t].pc = "create"
    /\ catalog[t].exists
    /\ initPromises[t] = "pending"
    /\ initPromises'[t] = "rejected"

C32_BothInitializationsComplete ==
    [][\A t \in Tables : ~CreateTableOnExisting(t)]_vars

\* A step in which runRetentionCheck(route) starts on the instance pruner_<t>.
CheckStartsFor(t) ==
    \E c \in BagToSet(checks') :
        c.table = t /\ c.pc = "get" /\ CopiesIn(c, checks') > CopiesIn(c, checks)

\* A step in which a call of the chain of route t fails, or the retention
\* check of t ends by raising.
ChainFails(t) ==
    \/ chains[t] # "caught" /\ chains'[t] = "caught"
    \/ \E c \in Checks : /\ c.table = t
                         /\ checks' = WithoutCheck(c)
                         /\ \/ c.pc = "init" /\ initPromises[t] = "rejected"
                            \/ PruningMetric(t, "failure", 0) \in pruningMetrics'

ChecksOf(bag, t) == {c \in BagToSet(bag) : c.table = t}

\* C33: runRetentionCheck(route) starts on pruner_<tableName> only after
\* setLogPlan(plan) has completed on that instance, only for a route with
\* both retentionDays and pruningIntervalDays, and a failure of either call
\* for one route leaves the chain, the plan and the retention checks of the
\* other routes as they are.
C33_ChainStep ==
    \A t \in Tables :
        /\ CheckStartsFor(t) =>
              /\ chains[t] = "runRetentionCheck"
              /\ PlanOf(t) = deployed
              /\ Dispatches(retentionPolicy)
        /\ ChainFails(t) =>
              \A u \in Tables \ {t} :
                  /\ chains'[u] = chains[u]
                  /\ PlanOf(u)' = PlanOf(u)
                  /\ ChecksOf(checks', u) = ChecksOf(checks, u)

C33_PlanBeforeCheckPerRoute == [][C33_ChainStep]_vars

\* The chain of t1 ended in its catch and the retention check of t2 ran to
\* its end after setLogPlan on pruner_t2.
C33_Witness ==
    /\ chains["t1"] = "caught"
    /\ chains["t2"] = "called"
    /\ otherInstance.logPlan = deployed
    /\ lastPruned["t2"] > 0

\* The invocations of runRetentionCheck for t that have called pruneTable.
Pruning(t) == {c \in Checks : c.table = t /\ c.pc \in {"delete", "analyze", "put"}}

\* C34: the pruner is invoked at most once per pruning interval, also when
\* retention checks of a table overlap: no invocation is in pruneTable
\* twice, and two that are in it read the clock more than their interval
\* apart.
C34_PrunedOncePerInterval ==
    \A t \in Tables : \A c \in Pruning(t) :
        /\ CopiesIn(c, checks) = 1
        /\ \A d \in Pruning(t) \ {c} :
              d.now >= c.now => d.now - c.now > IntervalMs(d.days)

\* C35 (the reported number): when an invocation of runRetentionCheck ends
\* after pruneTable and storage.put, the dataPruning metric it emits reports
\* the number of rows its DELETE removed, unless it ended in failure.
C35_ReportStep ==
    \A c \in Checks :
        (c.pc = "put" /\ checks' = WithoutCheck(c)) =>
            \/ PruningMetric(c.table, "success", c.deleted) \in pruningMetrics'
            \/ PruningMetric(c.table, "failure", 0) \in pruningMetrics'

C35_ReportsRowsDeleted == [][C35_ReportStep]_vars

\* the place of a column in the master schema
MasterIndex(col) == CHOOSE i \in 1..Len(MasterSchema) : MasterSchema[i] = col

InMasterOrder(names) ==
    \A i, j \in 1..Len(names) : i < j => MasterIndex(names[i]) < MasterIndex(names[j])

\* C36: for every columns list of a user route made of master schema fields,
\* the schema of the compiled route lists its columns in MasterSchema order.
C36_SchemaInMasterOrder ==
    logPlanPromise.state = "fulfilled" =>
        \A i \in 1..Len(userLogRoutes) :
            (/\ userLogRoutes[i].columns.kind = "array"
             /\ Range(userLogRoutes[i].columns.cols) \subseteq Range(MasterSchema)) =>
                InMasterOrder(SchemaNames(Plan[i + 1].schema))

\* C37: the failure counter of every table is an integer from 0 to
\* MAX_RETRIES - 1 in every reachable state, and it is 0 after every step in
\* which the store accepts a batch of the table or a batch of the table is
\* written to the dead-letter store.
C37_CounterInRange == \A t \in Tables : failureCounts[t] \in 0..(MAX_RETRIES - 1)

C37_CounterResetStep ==
    \A t \in Tables :
        (\/ Len(storeBatches'[t]) > Len(storeBatches[t])
         \/ /\ Len(deadLetter') > Len(deadLetter)
            /\ deadLetter'[Len(deadLetter')].tableName = t) =>
            failureCounts'[t] = 0

C37_FailureCounterBounded == []C37_CounterInRange /\ [][C37_CounterResetStep]_vars

\* A batch of t1 went to the dead-letter store, and later submissions of t1
\* have failed MAX_RETRIES - 1 times since.
C37_Witness ==
    /\ deadLetter # <<>>
    /\ deadLetter[1].tableName = "t1"
    /\ failureCounts["t1"] = MAX_RETRIES - 1

\* A step in which the flush f or the retention check c goes on from its
\* `await this.initialize(route)` to the store.
FlushGoesOn(f) == f.pc = "init" /\ [f EXCEPT !.pc = "batch"] \in Range(flights')

CheckCallsPruneTable(c) ==
    /\ c.pc = "init"
    /\ \E d \in BagToSet(checks') : d.pc = "delete" /\ CheckGoesOn(c, d)

\* The schema run of a table is in progress exactly while its promise is pending.
C38_OneRunAtATime ==
    \A t \in Tables : (initRun[t].pc # "idle") <=> (initPromises[t] = "pending")

C38_InitializeStep ==
    \A t \in Tables :
        /\ (initRun'[t].pc = "get" /\ initRun[t].pc # "get") =>
              initPromises[t] = "absent" /\ initPromises'[t] = "pending"
        /\ initPromises[t] # "absent" => initPromises'[t] # "absent"
        /\ initPromises[t] \in {"fulfilled", "rejected"} => initPromises'[t] = initPromises[t]
        /\ \A f \in Flights : (f.table = t /\ FlushGoesOn(f)) =>
              initPromises[t] = "fulfilled" /\ initRun[t].pc = "idle"
        /\ \A c \in Checks : (c.table = t /\ CheckCallsPruneTable(c)) =>
              initPromises[t] = "fulfilled" /\ initRun[t].pc = "idle"

\* C38: on one instance the schema of a table is applied by at most one run
\* at a time and at most once in the lifetime of the instance, and every
\* flush and retention check of the table that called initialize goes on to
\* the store only after that run has ended.
C38_SchemaAppliedOnce == []C38_OneRunAtATime /\ [][C38_InitializeStep]_vars

\* Two flushes and a retention check of t1 have gone on to the store after
\* the one run that applied the schema of t1.
C38_Witness ==
    /\ Cardinality({i \in 1..Len(flights) : flights[i].table = "t1" /\ flights[i].pc = "batch"}) = 2
    /\ \E c \in Checks : c.table = "t1" /\ c.pc = "delete"
    /\ Len(migrationMetrics) = 1
    /\ initPromises["t1"] = "fulfilled"

\* The table has every column of the schema of version v.
HasSchema(t, v) == catalog[t].exists /\ Range(Schema(v)) \subseteq ColumnsOf(t)

\* A stored fingerprint that equals the fingerprint of a route's schema
\* implies that the table has every column of that schema.
C39_FingerprintImpliesColumns ==
    \A t \in Tables : \A v \in Versions :
        schemaHashStored[t] = SchemaHash(v) => HasSchema(t, v)

C39_FingerprintStep ==
    \A t \in Tables :
        /\ schemaHashStored'[t] # schemaHashStored[t] =>
              /\ initRun[t].pc = "put"
              /\ schemaHashStored'[t] = SchemaHash(initRun[t].ver)
              /\ HasSchema(t, initRun[t].ver)
              /\ initPromises'[t] = "fulfilled"
        /\ (initPromises[t] = "pending" /\ initPromises'[t] = "rejected") =>
              schemaHashStored'[t] = schemaHashStored[t]

\* C39: the persisted fingerprint of a table changes only when applySchema
\* for that fingerprint has completed successfully, a failed catalog query
\* or DDL statement leaves it unchanged, and in every reachable state a
\* stored fingerprint of a route implies the table has the route's columns.
C39_FingerprintAfterSchema ==
    []C39_FingerprintImpliesColumns /\ [][C39_FingerprintStep]_vars

\* The table t1 was migrated from a table with a legacy column to version 1
\* and then to version 2, and an initialization of t2 failed, leaving no
\* fingerprint for t2.
C39_Witness ==
    /\ schemaHashStored["t1"] = SchemaHash(2)
    /\ {"legacy", "requestUrl"} \subseteq ColumnsOf("t1")
    /\ initPromises["t2"] = "rejected"
    /\ schemaHashStored["t2"] = NoHash

====
